---- MODULE Spec2Model ----
(***************************************************************************)
(* Library management API: the borrowing transaction engine.               *)
(*                                                                         *)
(* The persistent stores are the PostgreSQL tables books, borrowers and    *)
(* borrowings (READ COMMITTED isolation, the default of the pool).  Every  *)
(* service call is a request that runs through the awaits of its code; a   *)
(* step of a request is one round trip to the database (with the           *)
(* synchronous code before it).  Writes of a transaction become visible at *)
(* its COMMIT; row locks (SELECT ... FOR UPDATE, UPDATE, DELETE) are held  *)
(* from the statement that takes them to the end of the transaction and    *)
(* are derived here from the position of the request that holds them.      *)
(***************************************************************************)
EXTENDS Integers, FiniteSets, Sequences, TLC

\* ------------------------------------------------------------------ bounds
MaxBooks == 2        \* book ids 1..MaxBooks (SERIAL); ISBNs are drawn from the same range
MaxQty == 2          \* largest quantity a request names
MaxBorrowings == 2   \* borrowing ids 1..MaxBorrowings (SERIAL)
NumCallers == 3      \* concurrent callers of the N-caller scenarios; also the borrower ids
MaxDay == 1          \* the clock runs over days 0..MaxDay
MaxMigrations == 3   \* migration versions 1..MaxMigrations (timestamps of the file names)

\* --------------------------------------------------------------- constants
DefaultLoanDays == 14
Null == -1

BookIds == 1..MaxBooks
Isbns == 1..MaxBooks
BorrowerIds == 1..NumCallers
BorrowingIds == 1..MaxBorrowings
\* The requests: the callers of the N-caller scenarios, each of which makes one
\* call, and the two clients of the open system, which call again and again.
Callers == 1..NumCallers
Clients == {NumCallers + 1, NumCallers + 2}
Reqs == Callers \cup Clients
Days == 0..MaxDay

\* --------------------------------------------------------- error messages
ErrBookNotFound == "Book not found"
ErrBorrowerNotFound == "Borrower not found"
ErrBorrowingNotFound == "Borrowing not found"
ErrUnavailable == "Book is not available for checkout"
ErrDuplicate == "Borrower already has this book checked out"
ErrAlreadyReturned == "Book has already been returned"
ErrActiveNotFound == "Active borrowing not found"
ErrDueDate == "Due date must be in the future"
ErrNewDueDate == "New due date must be in the future"
ErrDueFormat == "Invalid due date format"
ErrAvailNegative == "Available quantity cannot be negative"
ErrTotalNegative == "Total quantity cannot be negative"
ErrAvailExceeds == "Available quantity cannot exceed total quantity"
ErrIsbnExists == "Book with this ISBN already exists"
ErrActiveBookBorrowings == "Cannot delete book with active borrowings"
ErrActiveBorrowerBorrowings == "Cannot delete borrower with active borrowings"
ErrDeleteBook == "Failed to delete book"
ErrDeleteBorrower == "Failed to delete borrower"
ErrAvailabilityUpdate == "Failed to update book availability or insufficient quantity"
\* errors raised by the database or the runtime, not by a check of the code
ErrCheckAvailNonNeg == "violates check constraint books_quantity_check"
ErrCheckTotalNonNeg == "violates check constraint books_total_quantity_check"
ErrCheckAvailLteTotal == "violates check constraint books_available_lte_total"
ErrCheckDueDate == "violates check constraint borrowings_due_date_check"
ErrCheckReturnDate == "violates check constraint borrowings_return_date_check"
ErrUniqueIsbn == "violates unique constraint books_isbn_key"
ErrForeignKey == "violates foreign key constraint borrowings_borrower_id_fkey"
ErrDeadlock == "deadlock detected"
ErrUndefinedColumn == "column extension_count of relation borrowings does not exist"
ErrTypeError == "TypeError: Cannot read properties of undefined"
OK == "ok"

VARIABLES
  books,            \* id -> [isbn, available_quantity, total_quantity], the rows of books
  borrowers,        \* the ids of the rows of borrowers
  borrowings,       \* id -> row of borrowings
  nextBookId,       \* books_id_seq
  nextBorrowingId,  \* borrowings_id_seq
  today,            \* the current date, in days
  req,              \* request -> the call it is running, its position and its locals
  migrationFiles,   \* the versions of the files of the migrations directory
  schema_migrations,\* the versions recorded in the table schema_migrations
  manager           \* the MigrationManager command that runs, its position and its locals

migrationVars == <<migrationFiles, schema_migrations, manager>>
libraryVars == <<books, borrowers, borrowings, nextBookId, nextBorrowingId, today, req>>
vars == <<books, borrowers, borrowings, nextBookId, nextBorrowingId, today, req,
          migrationFiles, schema_migrations, manager>>

Versions == 1..MaxMigrations
ManagerIdle == [op |-> "none", steps |-> Null, executed |-> <<>>, available |-> <<>>,
                queue |-> <<>>, ran |-> <<>>, pc |-> "idle"]
\* the database of the running application: every migration of the directory
\* has been applied and recorded, and no command of the manager runs
Migrated ==
  /\ migrationFiles = Versions
  /\ schema_migrations = Versions
  /\ manager = ManagerIdle
stores == <<books, borrowers, borrowings>>

Idle == [op |-> "idle", pc |-> "idle"]
\* a finished call: what the caller gets (the locals of the call are gone)
Done(r, result) == [op |-> r.op, pc |-> "done", result |-> result]
At(r, pc) == [r EXCEPT !.pc = pc]

\* A finished call of a client is answered before anything else happens: Respond
\* changes nothing another request reads, so this order loses no behaviour of the
\* stores.  (The callers of a scenario keep their result.)
NoneDone == \A q \in Clients : req[q].pc # "done"

\* ------------------------------------------------------------ pure helpers
IsActive(id) == id \in DOMAIN borrowings /\ borrowings[id].return_date = Null

ActiveOfBook(b) == {id \in DOMAIN borrowings : borrowings[id].book_id = b /\ IsActive(id)}

OfBook(b) == {id \in DOMAIN borrowings : borrowings[id].book_id = b}

OfBorrower(w) == {id \in DOMAIN borrowings : borrowings[id].borrower_id = w}

\* (a faulty variant: the duplicate-checkout guard finds nothing)
NoActiveBorrowing(w, b) == FALSE

\* BorrowingRepository.hasActiveBorrowing
HasActiveBorrowing(w, b) ==
  \E id \in DOMAIN borrowings :
    borrowings[id].borrower_id = w /\ borrowings[id].book_id = b /\ IsActive(id)

\* (a faulty variant: the guard of the deletion of a book finds nothing)
NoActiveBookBorrowings(b) == FALSE

\* BorrowingRepository.hasActiveBookBorrowings
HasActiveBookBorrowings(b) == ActiveOfBook(b) # {}

\* BorrowerRepository.getCurrentBooks (the rows it returns, by borrowing id)
GetCurrentBooks(w) == {id \in OfBorrower(w) : IsActive(id)}

\* BookDTO.validateQuantities: OK or the message of the first failed check
ValidateQuantities(available_quantity, total_quantity) ==
  IF available_quantity < 0 THEN ErrAvailNegative
  ELSE IF total_quantity < 0 THEN ErrTotalNegative
  ELSE IF available_quantity > total_quantity THEN ErrAvailExceeds
  ELSE OK

\* (a faulty variant: a books table without its CHECK constraints)
NoBooksCheck(available_quantity, total_quantity) == OK

\* the CHECK constraints of the books table: OK or the violated constraint
BooksCheck(available_quantity, total_quantity) ==
  IF available_quantity < 0 THEN ErrCheckAvailNonNeg
  ELSE IF total_quantity < 0 THEN ErrCheckTotalNonNeg
  ELSE IF available_quantity > total_quantity THEN ErrCheckAvailLteTotal
  ELSE OK

\* (a faulty variant: the borrowings table has no CHECK constraint)
NoBorrowingsCheck(checkout_date, due_date, return_date) == OK

\* the CHECK constraints of the borrowings table
BorrowingsCheck(checkout_date, due_date, return_date) ==
  IF due_date < checkout_date THEN ErrCheckDueDate
  ELSE IF return_date # Null /\ return_date < checkout_date THEN ErrCheckReturnDate
  ELSE OK

\* (a faulty variant: the default loan is a day short)
DueDateADayShort(due_date) ==
  IF due_date = Null THEN today + DefaultLoanDays - 1 ELSE due_date

\* BorrowingDTO.fromCheckoutRequest: due_date || now + 14 days
CalculatedDueDate(due_date) == IF due_date = Null THEN today + DefaultLoanDays ELSE due_date

\* new Date(due_date) > new Date(): the moment the string denotes is after now.
\* due_date is the calendar date written in the string, which is the date the
\* database stores.  A plain date ("midnight") denotes its midnight UTC, which is
\* not after any moment of that day.  A date with a time of day and a zone that
\* denotes a moment after now ("ahead") is written as a date of tomorrow or later,
\* of today, or of yesterday (2024-01-09T23:30:00-05:00 is 04:30 UTC on the 10th).
InFuture(due_date, moment) ==
  \/ due_date > today
  \/ moment = "ahead" /\ due_date >= today - 1

\* BorrowingDTO.validateCheckoutData, the date check
ValidateCheckoutData(due_date, moment) ==
  IF InFuture(due_date, moment) THEN OK ELSE ErrDueDate

\* --------------------------------------------------------------- row locks
\* requests holding the row lock of book b: a checkout between its SELECT ... FOR
\* UPDATE and its COMMIT, a DELETE of the book waiting for its cascade
BookLockHolders(b) ==
  {q \in Reqs : \/ req[q].op = "checkout" /\ req[q].pc \in {"c_borrowerCheck", "c_insert"}
                   /\ req[q].book_id = b
                \/ req[q].op \in {"deleteBook", "deleteBookByISBN"} /\ req[q].pc = "db_cascade"
                   /\ req[q].book_id = b}

\* requests holding the row lock of borrowing id: a return or an extension between
\* its SELECT ... FOR UPDATE and its COMMIT
BorrowingLockHolders(id) ==
  {q \in Reqs : /\ \/ req[q].op = "return" /\ req[q].pc = "r_update"
                   \/ req[q].op = "extend" /\ req[q].pc = "e_update"
                /\ req[q].id = id}

\* requests holding the row lock of borrower w: a DELETE waiting for its cascade
BorrowerLockHolders(w) ==
  {q \in Reqs : req[q].op = "deleteBorrower" /\ req[q].pc = "dw_cascade" /\ req[q].borrower_id = w}

LockHoldersOf(ids) == UNION {BorrowingLockHolders(id) : id \in ids}

\* ---------------------------------------------------------------- checkout
\* the checkouts that have yet to draw their id from the sequence of borrowing ids
InFlightCheckouts == {q \in Reqs : req[q].op = "checkout" /\ req[q].pc \notin {"done", "c_detail"}}

\* POST /checkout arrives with its body
Checkout(p, book_id, borrower_id, due_date, moment) ==
  /\ NoneDone /\ req[p].pc = "idle"
  /\ req' = [req EXCEPT ![p] = [op |-> "checkout", pc |-> "c_findBook", book_id |-> book_id,
                                 borrower_id |-> borrower_id, due_date |-> due_date,
                                 moment |-> moment]]
  /\ UNCHANGED <<books, borrowers, borrowings, nextBookId, nextBorrowingId, today, migrationVars>>

\* ... with a due_date that is left out or a plain date
CheckoutBook(p, book_id, borrower_id, due_date) ==
  Checkout(p, book_id, borrower_id, due_date, "midnight")

\* BorrowingService.checkoutBook up to bookRepository.findById and its checks
CheckoutFindBook(p) ==
  LET r == [op |-> "checkout", pc |-> "c_findBorrower", book_id |-> req[p].book_id,
            borrower_id |-> req[p].borrower_id,
            due_date |-> CalculatedDueDate(req[p].due_date), checkout_date |-> today,
            moment |-> req[p].moment]
      invalid == ValidateCheckoutData(r.due_date, r.moment)
  IN /\ NoneDone /\ req[p].op = "checkout" /\ req[p].pc = "c_findBook"
     /\ req' = [req EXCEPT ![p] =
          IF invalid # OK THEN Done(r, invalid)
          ELSE IF r.book_id \notin DOMAIN books THEN Done(r, ErrBookNotFound)
          ELSE IF books[r.book_id].available_quantity <= 0 THEN Done(r, ErrUnavailable)
          ELSE r]
     /\ UNCHANGED <<books, borrowers, borrowings, nextBookId, nextBorrowingId, today, migrationVars>>

\* checkoutBook: borrowerRepository.findById
CheckoutFindBorrower(p) ==
  /\ NoneDone /\ req[p].op = "checkout" /\ req[p].pc = "c_findBorrower"
  /\ req' = [req EXCEPT ![p] =
       IF req[p].borrower_id \notin borrowers THEN Done(@, ErrBorrowerNotFound)
       ELSE At(@, "c_hasActive")]
  /\ UNCHANGED <<books, borrowers, borrowings, nextBookId, nextBorrowingId, today, migrationVars>>

\* checkoutBook: the duplicate-checkout guard
CheckoutHasActive(p) ==
  /\ NoneDone /\ req[p].op = "checkout" /\ req[p].pc = "c_hasActive"
  /\ req' = [req EXCEPT ![p] =
       IF HasActiveBorrowing(req[p].borrower_id, req[p].book_id) THEN Done(@, ErrDuplicate)
       ELSE At(@, "c_lock")]
  /\ UNCHANGED <<books, borrowers, borrowings, nextBookId, nextBorrowingId, today, migrationVars>>

\* the row INSERT INTO borrowings writes
NewBorrowing(r) ==
  [book_id |-> r.book_id, borrower_id |-> r.borrower_id, checkout_date |-> r.checkout_date,
   due_date |-> r.due_date, return_date |-> Null]

\* (a faulty variant: the statement that adjusts the counter is left out)
KeepAvailable(b, d) == books

\* (a faulty variant: the counter is taken down whatever the direction asked for)
TakeAvailable(b, d) == [books EXCEPT ![b].available_quantity = @ - 1]

\* the books table after UPDATE books SET available_quantity = available_quantity + d
AdjustAvailable(b, d) == [books EXCEPT ![b].available_quantity = @ + d]

\* (a faulty variant: the row is inserted before the counter is read, and stays
\* when the call fails)
CreateInsertBeforeCheck(p) ==
  LET unavailable == \/ req[p].book_id \notin DOMAIN books
                     \/ books[req[p].book_id].available_quantity <= 0
  IN /\ NoneDone /\ req[p].op = "checkout" /\ req[p].pc = "c_lock"
     /\ req[p].book_id \in DOMAIN books => BookLockHolders(req[p].book_id) = {}
     /\ req' = [req EXCEPT ![p] =
          IF unavailable THEN Done(@, ErrUnavailable) ELSE At(@, "c_borrowerCheck")]
     /\ borrowings' =
          IF unavailable
          THEN [id \in DOMAIN borrowings \cup {nextBorrowingId} |->
                  IF id = nextBorrowingId THEN NewBorrowing(req[p]) ELSE borrowings[id]]
          ELSE borrowings
     /\ nextBorrowingId' = IF unavailable THEN nextBorrowingId + 1 ELSE nextBorrowingId
     /\ UNCHANGED <<books, borrowers, nextBookId, today, migrationVars>>

\* (a faulty variant: the transaction starts without locking the row of the book
\* and without reading its counter again)
CreateWithoutLock(p) ==
  /\ NoneDone /\ req[p].op = "checkout" /\ req[p].pc = "c_lock"
  /\ req' = [req EXCEPT ![p] = At(@, "c_borrowerCheck")]
  /\ UNCHANGED <<books, borrowers, borrowings, nextBookId, nextBorrowingId, today, migrationVars>>

\* BorrowingRepository.create: BEGIN; SELECT available_quantity ... FOR UPDATE
\* (waits while another transaction holds the row) and the availability check
CreateLockBook(p) ==
  /\ NoneDone /\ req[p].op = "checkout" /\ req[p].pc = "c_lock"
  /\ req[p].book_id \in DOMAIN books => BookLockHolders(req[p].book_id) = {}
  /\ req' = [req EXCEPT ![p] =
       IF req[p].book_id \notin DOMAIN books
          \/ books[req[p].book_id].available_quantity <= 0
       THEN Done(@, ErrUnavailable)
       ELSE At(@, "c_borrowerCheck")]
  /\ UNCHANGED <<books, borrowers, borrowings, nextBookId, nextBorrowingId, today, migrationVars>>

\* BorrowingRepository.create: SELECT id FROM borrowers
CreateBorrowerCheck(p) ==
  /\ NoneDone /\ req[p].op = "checkout" /\ req[p].pc = "c_borrowerCheck"
  /\ req' = [req EXCEPT ![p] =
       IF req[p].borrower_id \notin borrowers THEN Done(@, ErrBorrowerNotFound)
       ELSE At(@, "c_insert")]
  /\ UNCHANGED <<books, borrowers, borrowings, nextBookId, nextBorrowingId, today, migrationVars>>

\* BorrowingRepository.create: INSERT INTO borrowings (its foreign key waits for a
\* DELETE in progress on the borrower), UPDATE books ... - 1, COMMIT; a failed
\* statement is caught, rolled back and rethrown
CreateInsertCommit(p) ==
  LET r == req[p]
      b == r.book_id
      row == NewBorrowing(r)
      fails == IF r.borrower_id \notin borrowers THEN ErrForeignKey
               ELSE IF BorrowingsCheck(row.checkout_date, row.due_date, row.return_date) # OK
                    THEN BorrowingsCheck(row.checkout_date, row.due_date, row.return_date)
               ELSE BooksCheck(books[b].available_quantity - 1, books[b].total_quantity)
  IN /\ NoneDone /\ r.op = "checkout" /\ r.pc = "c_insert"
     /\ BorrowerLockHolders(r.borrower_id) = {}
     /\ nextBorrowingId' = nextBorrowingId + 1
     /\ IF fails # OK
        THEN /\ req' = [req EXCEPT ![p] = Done(@, fails)]
             /\ UNCHANGED <<books, borrowings>>
        ELSE /\ borrowings' = [id \in DOMAIN borrowings \cup {nextBorrowingId} |->
                                 IF id = nextBorrowingId THEN row ELSE borrowings[id]]
             /\ books' = AdjustAvailable(b, -1)
             /\ req' = [req EXCEPT ![p] = [op |-> "checkout", pc |-> "c_detail",
                                            id |-> nextBorrowingId]]
     /\ UNCHANGED <<borrowers, nextBookId, today, migrationVars>>

\* the detail query after COMMIT (borrowings JOIN books JOIN borrowers) and the
\* enrichment of the service, which reads fields of the row it got
DetailResult(id) == IF id \in DOMAIN borrowings THEN OK ELSE ErrTypeError

CreateDetail(p) ==
  /\ NoneDone /\ req[p].op = "checkout" /\ req[p].pc = "c_detail"
  /\ req' = [req EXCEPT ![p] = Done(@, DetailResult(req[p].id))]
  /\ UNCHANGED <<books, borrowers, borrowings, nextBookId, nextBorrowingId, today, migrationVars>>

\* ------------------------------------------------------------------ return
\* POST /return/:id arrives
\* BorrowingController.returnBook with the request body {borrowing_id, return_date}:
\* only borrowing_id is taken from the body (return_date stays in the request)
Return(p, id, return_date) ==
  /\ NoneDone /\ req[p].pc = "idle"
  /\ req' = [req EXCEPT ![p] = [op |-> "return", pc |-> "r_find", id |-> id,
                                body_return_date |-> return_date]]
  /\ UNCHANGED <<books, borrowers, borrowings, nextBookId, nextBorrowingId, today, migrationVars>>

ReturnBook(p, id) == Return(p, id, Null)

\* BorrowingService.returnBook up to borrowingRepository.findById and its checks;
\* BorrowingDTO.fromReturnRequest sets return_date to the current date
ReturnFindBorrowing(p) ==
  LET id == req[p].id
      r == [op |-> "return", pc |-> "r_lock", id |-> id, return_date |-> today,
            body_return_date |-> req[p].body_return_date]
  IN /\ NoneDone /\ req[p].op = "return" /\ req[p].pc = "r_find"
     /\ req' = [req EXCEPT ![p] =
          IF id \notin DOMAIN borrowings THEN Done(r, ErrBorrowingNotFound)
          ELSE IF borrowings[id].return_date # Null THEN Done(r, ErrAlreadyReturned)
          ELSE r]
     /\ UNCHANGED <<books, borrowers, borrowings, nextBookId, nextBorrowingId, today, migrationVars>>

\* (a faulty variant: the transaction starts without locking the borrowing and
\* without reading its return_date again)
ReturnWithoutLock(p) ==
  /\ NoneDone /\ req[p].op = "return" /\ req[p].pc = "r_lock"
  /\ req' = [req EXCEPT ![p] =
       IF req[p].id \in DOMAIN borrowings THEN At(@, "r_update")
       ELSE Done(@, ErrActiveNotFound)]
  /\ UNCHANGED <<books, borrowers, borrowings, nextBookId, nextBorrowingId, today, migrationVars>>

\* BorrowingRepository.returnBook: BEGIN; SELECT ... WHERE id = $1 AND return_date IS
\* NULL FOR UPDATE: a row another transaction holds is waited for and then re-read
ReturnLockBorrowing(p) ==
  /\ NoneDone /\ req[p].op = "return" /\ req[p].pc = "r_lock"
  /\ IsActive(req[p].id) => BorrowingLockHolders(req[p].id) = {}
  /\ req' = [req EXCEPT ![p] =
       IF IsActive(req[p].id) THEN At(@, "r_update") ELSE Done(@, ErrActiveNotFound)]
  /\ UNCHANGED <<books, borrowers, borrowings, nextBookId, nextBorrowingId, today, migrationVars>>

\* BorrowingRepository.returnBook: UPDATE borrowings SET return_date; UPDATE books
\* ... + 1 (waits for the row lock of the book); COMMIT
ReturnUpdateCommit(p) ==
  LET r == req[p]
      row == borrowings[r.id]
      b == row.book_id
      fails == IF BorrowingsCheck(row.checkout_date, row.due_date, r.return_date) # OK
               THEN BorrowingsCheck(row.checkout_date, row.due_date, r.return_date)
               ELSE BooksCheck(books[b].available_quantity + 1, books[b].total_quantity)
  IN /\ NoneDone /\ r.op = "return" /\ r.pc = "r_update"
     /\ BookLockHolders(b) = {}
     /\ IF fails # OK
        THEN /\ req' = [req EXCEPT ![p] = Done(@, fails)]
             /\ UNCHANGED <<books, borrowings>>
        ELSE /\ borrowings' = [borrowings EXCEPT ![r.id].return_date = r.return_date]
             /\ books' = AdjustAvailable(b, 1)
             /\ req' = [req EXCEPT ![p] = [op |-> "return", pc |-> "r_detail", id |-> r.id]]
     /\ UNCHANGED <<borrowers, nextBookId, nextBorrowingId, today, migrationVars>>

ReturnDetail(p) ==
  /\ NoneDone /\ req[p].op = "return" /\ req[p].pc = "r_detail"
  /\ req' = [req EXCEPT ![p] = Done(@, DetailResult(req[p].id))]
  /\ UNCHANGED <<books, borrowers, borrowings, nextBookId, nextBorrowingId, today, migrationVars>>

\* ------------------------------------------------------------------ extend
\* PUT /:id/extend arrives with its body (valid = FALSE: new_due_date is a string
\* that does not parse as a date)
ExtendDueDate(p, id, newDueDate, valid, extensionReason) ==
  /\ NoneDone /\ req[p].pc = "idle"
  /\ req' = [req EXCEPT ![p] = [op |-> "extend", pc |-> "e_lock", id |-> id,
                                 due_date |-> newDueDate, valid |-> valid,
                                 extension_reason |-> extensionReason]]
  /\ UNCHANGED <<books, borrowers, borrowings, nextBookId, nextBorrowingId, today, migrationVars>>

\* (a faulty variant: the SELECT lacks AND return_date IS NULL)
ExtendAnyBorrowing(p) ==
  LET r == req[p]
      invalid == IF ~r.valid THEN ErrDueFormat
                 ELSE IF r.due_date <= today THEN ErrNewDueDate ELSE OK
  IN /\ NoneDone /\ r.op = "extend" /\ r.pc = "e_lock"
     /\ (invalid = OK /\ r.id \in DOMAIN borrowings) => BorrowingLockHolders(r.id) = {}
     /\ req' = [req EXCEPT ![p] =
          IF invalid # OK THEN Done(r, invalid)
          ELSE IF r.id \notin DOMAIN borrowings THEN Done(r, ErrActiveNotFound)
          ELSE At(r, "e_update")]
     /\ UNCHANGED <<books, borrowers, borrowings, nextBookId, nextBorrowingId, today, migrationVars>>

\* (a faulty variant: the checks of new_due_date are left out)
ExtendWithoutDateCheck(p) ==
  LET r == req[p]
  IN /\ NoneDone /\ r.op = "extend" /\ r.pc = "e_lock"
     /\ IsActive(r.id) => BorrowingLockHolders(r.id) = {}
     /\ req' = [req EXCEPT ![p] =
          IF ~IsActive(r.id) THEN Done(r, ErrActiveNotFound) ELSE At(r, "e_update")]
     /\ UNCHANGED <<books, borrowers, borrowings, nextBookId, nextBorrowingId, today, migrationVars>>

\* BorrowingService.extendDueDate (the checks of new_due_date) and
\* BorrowingRepository.extendDueDate up to its SELECT ... WHERE id = $1 AND
\* return_date IS NULL FOR UPDATE
ExtendLockBorrowing(p) ==
  LET r == req[p]
      invalid == IF ~r.valid THEN ErrDueFormat
                 ELSE IF r.due_date <= today THEN ErrNewDueDate ELSE OK
  IN /\ NoneDone /\ r.op = "extend" /\ r.pc = "e_lock"
     /\ (invalid = OK /\ IsActive(r.id)) => BorrowingLockHolders(r.id) = {}
     /\ req' = [req EXCEPT ![p] =
          IF invalid # OK THEN Done(r, invalid)
          ELSE IF ~IsActive(r.id) THEN Done(r, ErrActiveNotFound)
          ELSE At(r, "e_update")]
     /\ UNCHANGED <<books, borrowers, borrowings, nextBookId, nextBorrowingId, today, migrationVars>>

\* (a faulty variant: the failed statement is rolled back and the call starts over)
ExtendUpdateRetry(p) ==
  /\ NoneDone /\ req[p].op = "extend" /\ req[p].pc = "e_update"
  /\ req' = [req EXCEPT ![p] = At(@, "e_lock")]
  /\ UNCHANGED <<books, borrowers, borrowings, nextBookId, nextBorrowingId, today, migrationVars>>

\* BorrowingRepository.extendDueDate: UPDATE borrowings SET due_date = $2,
\* extension_count = COALESCE(extension_count, 0) + 1, extension_reason = $3, ...
\* The borrowings table (created by the migration, changed by no other) has the
\* columns id, book_id, borrower_id, checkout_date, due_date, return_date,
\* is_returned, created_at and updated_at: it has no column extension_count and no
\* column extension_reason, so the database rejects the statement whatever the row
\* and the date are.  The catch block rolls back (the row lock is released, nothing
\* is written) and rethrows; the COMMIT and the detail query after it are never
\* reached.
ExtendUpdateCommit(p) ==
  /\ NoneDone /\ req[p].op = "extend" /\ req[p].pc = "e_update"
  /\ req' = [req EXCEPT ![p] = Done(@, ErrUndefinedColumn)]
  /\ UNCHANGED <<books, borrowers, borrowings, nextBookId, nextBorrowingId, today, migrationVars>>

\* --------------------------------------------------------------- inventory
\* (a faulty variant: the book's own row counts as a holder of the ISBN)
IsbnExistsAnywhere(isbn, excludeId) ==
  \E b \in DOMAIN books : books[b].isbn = isbn

\* BookRepository.findByISBN / isbnExists(isbn, excludeId)
IsbnExists(isbn, excludeId) ==
  \E b \in DOMAIN books : books[b].isbn = isbn /\ b # excludeId

\* BookDTO.fromCreateRequest: total_quantity || available_quantity || 0
FinalTotalQuantity(available_quantity, total_quantity) ==
  IF total_quantity # 0 THEN total_quantity ELSE available_quantity

\* the creations that have yet to draw their id from the sequence of book ids
InFlightCreations == {q \in Reqs : req[q].op = "createBook" /\ req[q].pc # "done"}

\* POST /books arrives with its body
CreateBook(p, isbn, available_quantity, total_quantity) ==
  /\ NoneDone /\ req[p].pc = "idle"
  /\ nextBookId + Cardinality(InFlightCreations) <= MaxBooks
  /\ req' = [req EXCEPT ![p] = [op |-> "createBook", pc |-> "cb_find", isbn |-> isbn,
                                 available_quantity |-> available_quantity,
                                 total_quantity |-> total_quantity]]
  /\ UNCHANGED <<books, borrowers, borrowings, nextBookId, nextBorrowingId, today, migrationVars>>

\* BookService.createBook up to bookRepository.findByISBN and its check
CreateBookFindByISBN(p) ==
  LET r == [req[p] EXCEPT !.pc = "cb_insert",
              !.total_quantity = FinalTotalQuantity(req[p].available_quantity, @)]
      invalid == ValidateQuantities(r.available_quantity, r.total_quantity)
  IN /\ NoneDone /\ req[p].op = "createBook" /\ req[p].pc = "cb_find"
     /\ req' = [req EXCEPT ![p] =
          IF invalid # OK THEN Done(r, invalid)
          ELSE IF IsbnExists(r.isbn, 0) THEN Done(r, ErrIsbnExists)
          ELSE r]
     /\ UNCHANGED <<books, borrowers, borrowings, nextBookId, nextBorrowingId, today, migrationVars>>

\* BookRepository.create: INSERT INTO books
BookRepositoryCreate(p) ==
  LET r == req[p]
      fails == IF IsbnExists(r.isbn, 0) THEN ErrUniqueIsbn
               ELSE BooksCheck(r.available_quantity, r.total_quantity)
  IN /\ NoneDone /\ r.op = "createBook" /\ r.pc = "cb_insert"
     /\ nextBookId' = nextBookId + 1
     /\ books' = IF fails # OK THEN books
                 ELSE [b \in DOMAIN books \cup {nextBookId} |->
                         IF b = nextBookId
                         THEN [isbn |-> r.isbn, available_quantity |-> r.available_quantity,
                               total_quantity |-> r.total_quantity]
                         ELSE books[b]]
     /\ req' = [req EXCEPT ![p] = Done(@, fails)]
     /\ UNCHANGED <<borrowers, borrowings, nextBorrowingId, today, migrationVars>>

\* the update requests: objects with any of the fields isbn, available_quantity,
\* total_quantity (BookDTO.fromUpdateRequest keeps the fields that are given)
UpdateFields == {"isbn", "available_quantity", "total_quantity"}

\* { ...existingBook, ...sanitizedData }
Merge(existing, updateData) ==
  [k \in DOMAIN existing |-> IF k \in DOMAIN updateData THEN updateData[k] ELSE existing[k]]

\* BookService.updateBook after findById: the ISBN check is made only for a new ISBN
UpdateAfterFind(r) ==
  LET finalData == Merge(r.existing, r.updateData)
      invalid == ValidateQuantities(finalData.available_quantity, finalData.total_quantity)
  IN IF invalid # OK THEN Done(r, invalid) ELSE At(r, "ub_update")

\* PUT /books/:id arrives with its body
UpdateBook(p, bookId, updateData) ==
  /\ NoneDone /\ req[p].pc = "idle"
  /\ req' = [req EXCEPT ![p] = [op |-> "updateBook", pc |-> "ub_find", book_id |-> bookId,
                                 updateData |-> updateData]]
  /\ UNCHANGED <<books, borrowers, borrowings, nextBookId, nextBorrowingId, today, migrationVars>>

\* BookService.updateBook up to bookRepository.findById
UpdateBookFind(p) ==
  LET bookId == req[p].book_id
      updateData == req[p].updateData
      r == [op |-> "updateBook", pc |-> "ub_isbn", book_id |-> bookId,
            updateData |-> updateData,
            existing |-> IF bookId \in DOMAIN books THEN books[bookId] ELSE Idle]
  IN /\ NoneDone /\ req[p].op = "updateBook" /\ req[p].pc = "ub_find"
     /\ req' = [req EXCEPT ![p] =
          IF bookId \notin DOMAIN books THEN Done(r, ErrBookNotFound)
          ELSE IF "isbn" \in DOMAIN updateData /\ updateData.isbn # r.existing.isbn THEN r
          ELSE UpdateAfterFind(r)]
     /\ UNCHANGED <<books, borrowers, borrowings, nextBookId, nextBorrowingId, today, migrationVars>>

\* updateBook: bookRepository.isbnExists(isbn, bookId)
UpdateBookIsbnExists(p) ==
  /\ NoneDone /\ req[p].op = "updateBook" /\ req[p].pc = "ub_isbn"
  /\ req' = [req EXCEPT ![p] =
       IF IsbnExists(req[p].updateData.isbn, req[p].book_id) THEN Done(@, ErrIsbnExists)
       ELSE UpdateAfterFind(@)]
  /\ UNCHANGED <<books, borrowers, borrowings, nextBookId, nextBorrowingId, today, migrationVars>>

\* BookRepository.update: UPDATE books SET <the given fields> WHERE id = $n (waits
\* for the row lock); no field or no row gives null, which the service returns
BookRepositoryUpdate(p) ==
  LET r == req[p]
      b == r.book_id
      row == Merge(books[b], r.updateData)
      fails == IF IsbnExists(row.isbn, b) THEN ErrUniqueIsbn
               ELSE BooksCheck(row.available_quantity, row.total_quantity)
  IN /\ NoneDone /\ r.op = "updateBook" /\ r.pc = "ub_update"
     /\ b \in DOMAIN books => BookLockHolders(b) = {}
     /\ IF DOMAIN r.updateData = {} \/ b \notin DOMAIN books
        THEN /\ req' = [req EXCEPT ![p] = Done(@, OK)]
             /\ UNCHANGED books
        ELSE /\ req' = [req EXCEPT ![p] = Done(@, fails)]
             /\ books' = IF fails # OK THEN books ELSE [books EXCEPT ![b] = row]
     /\ UNCHANGED <<borrowers, borrowings, nextBookId, nextBorrowingId, today, migrationVars>>

\* PATCH /books/:id/availability arrives with its quantity change
UpdateBookAvailability(p, bookId, quantityChange) ==
  /\ NoneDone /\ req[p].pc = "idle"
  /\ req' = [req EXCEPT ![p] = [op |-> "updateBookAvailability", pc |-> "ua_update",
                                 book_id |-> bookId, quantityChange |-> quantityChange]]
  /\ UNCHANGED <<books, borrowers, borrowings, nextBookId, nextBorrowingId, today, migrationVars>>

\* BookService.updateBookAvailability and BookRepository.updateAvailability:
\* UPDATE books SET available_quantity = available_quantity + $2
\*   WHERE id = $1 AND available_quantity + $2 >= 0
UpdateAvailability(p) ==
  LET r == req[p]
      bookId == r.book_id
      matches == bookId \in DOMAIN books
                 /\ books[bookId].available_quantity + r.quantityChange >= 0
      fails == BooksCheck(books[bookId].available_quantity + r.quantityChange,
                          books[bookId].total_quantity)
  IN /\ NoneDone /\ r.op = "updateBookAvailability" /\ r.pc = "ua_update"
     /\ bookId \in DOMAIN books => BookLockHolders(bookId) = {}
     /\ IF ~matches
        THEN /\ req' = [req EXCEPT ![p] = Done(r, ErrAvailabilityUpdate)]
             /\ UNCHANGED books
        ELSE /\ req' = [req EXCEPT ![p] = Done(r, fails)]
             /\ books' = IF fails # OK THEN books
                         ELSE AdjustAvailable(bookId, r.quantityChange)
     /\ UNCHANGED <<borrowers, borrowings, nextBookId, nextBorrowingId, today, migrationVars>>

\* ---------------------------------------------------------------- deletion
\* DELETE /books/:id arrives
DeleteBook(p, bookId) ==
  /\ NoneDone /\ req[p].pc = "idle"
  /\ req' = [req EXCEPT ![p] = [op |-> "deleteBook", pc |-> "db_find", book_id |-> bookId]]
  /\ UNCHANGED <<books, borrowers, borrowings, nextBookId, nextBorrowingId, today, migrationVars>>

\* BookService.deleteBook up to bookRepository.findById
DeleteBookFind(p) ==
  /\ NoneDone /\ req[p].op = "deleteBook" /\ req[p].pc = "db_find"
  /\ req' = [req EXCEPT ![p] =
       IF req[p].book_id \notin DOMAIN books THEN Done(@, ErrBookNotFound)
       ELSE At(@, "db_hasActive")]
  /\ UNCHANGED <<books, borrowers, borrowings, nextBookId, nextBorrowingId, today, migrationVars>>

\* deleteBook: borrowingRepository.hasActiveBookBorrowings
DeleteBookHasActive(p) ==
  /\ NoneDone /\ req[p].op = "deleteBook" /\ req[p].pc = "db_hasActive"
  /\ req' = [req EXCEPT ![p] =
       IF HasActiveBookBorrowings(req[p].book_id) THEN Done(@, ErrActiveBookBorrowings)
       ELSE At(@, "db_delete")]
  /\ UNCHANGED <<books, borrowers, borrowings, nextBookId, nextBorrowingId, today, migrationVars>>

\* BookRepository.delete: DELETE FROM books takes the row lock of the book (waiting
\* for its holder); no row gives rowCount 0
BookRepositoryDelete(p) ==
  /\ NoneDone /\ req[p].op = "deleteBook" /\ req[p].pc = "db_delete"
  /\ req[p].book_id \in DOMAIN books => BookLockHolders(req[p].book_id) = {}
  /\ req' = [req EXCEPT ![p] =
       IF req[p].book_id \notin DOMAIN books THEN Done(@, ErrDeleteBook)
       ELSE At(@, "db_cascade")]
  /\ UNCHANGED <<books, borrowers, borrowings, nextBookId, nextBorrowingId, today, migrationVars>>

\* a table without the rows of the given ids
Without(table, ids) == [id \in DOMAIN table \ ids |-> table[id]]

\* DELETE FROM books, its ON DELETE CASCADE on borrowings.book_id (waiting for the
\* row locks of the borrowings) and the end of the statement
BookDeleteCascade(p) ==
  LET b == req[p].book_id
  IN /\ NoneDone /\ req[p].op \in {"deleteBook", "deleteBookByISBN"} /\ req[p].pc = "db_cascade"
     /\ LockHoldersOf(OfBook(b)) = {}
     /\ books' = Without(books, {b})
     /\ borrowings' = Without(borrowings, OfBook(b))
     /\ req' = [req EXCEPT ![p] = Done(@, OK)]
     /\ UNCHANGED <<borrowers, nextBookId, nextBorrowingId, today, migrationVars>>

\* the book with the given ISBN, if any (the column is UNIQUE)
BooksOfISBN(isbn) == {b \in DOMAIN books : books[b].isbn = isbn}

\* DELETE /books/isbn/:isbn arrives
DeleteBookByISBN(p, isbn) ==
  /\ NoneDone /\ req[p].pc = "idle"
  /\ req' = [req EXCEPT ![p] = [op |-> "deleteBookByISBN", pc |-> "di_find", isbn |-> isbn]]
  /\ UNCHANGED <<books, borrowers, borrowings, nextBookId, nextBorrowingId, today, migrationVars>>

\* BookService.deleteBookByISBN up to bookRepository.findByISBN
DeleteByISBNFind(p) ==
  /\ NoneDone /\ req[p].op = "deleteBookByISBN" /\ req[p].pc = "di_find"
  /\ req' = [req EXCEPT ![p] =
       IF BooksOfISBN(req[p].isbn) = {} THEN Done(@, ErrBookNotFound)
       ELSE [op |-> "deleteBookByISBN", pc |-> "di_hasActive", isbn |-> req[p].isbn,
             book_id |-> CHOOSE b \in BooksOfISBN(req[p].isbn) : TRUE]]
  /\ UNCHANGED <<books, borrowers, borrowings, nextBookId, nextBorrowingId, today, migrationVars>>

\* deleteBookByISBN: borrowingRepository.hasActiveBookBorrowings(book.id)
DeleteByISBNHasActive(p) ==
  /\ NoneDone /\ req[p].op = "deleteBookByISBN" /\ req[p].pc = "di_hasActive"
  /\ req' = [req EXCEPT ![p] =
       IF HasActiveBookBorrowings(req[p].book_id) THEN Done(@, ErrActiveBookBorrowings)
       ELSE At(@, "di_delete")]
  /\ UNCHANGED <<books, borrowers, borrowings, nextBookId, nextBorrowingId, today, migrationVars>>

\* BookRepository.deleteByISBN: DELETE FROM books WHERE isbn = $1 takes the row lock
\* of the book that has the ISBN now; no row gives rowCount 0
BookRepositoryDeleteByISBN(p) ==
  LET found == BooksOfISBN(req[p].isbn)
  IN /\ NoneDone /\ req[p].op = "deleteBookByISBN" /\ req[p].pc = "di_delete"
     /\ \A b \in found : BookLockHolders(b) = {}
     /\ req' = [req EXCEPT ![p] =
          IF found = {} THEN Done(@, ErrDeleteBook)
          ELSE [op |-> "deleteBookByISBN", pc |-> "db_cascade", isbn |-> req[p].isbn,
                book_id |-> CHOOSE b \in found : TRUE]]
     /\ UNCHANGED <<books, borrowers, borrowings, nextBookId, nextBorrowingId, today, migrationVars>>

\* GET /books/:id arrives
GetBookById(p, bookId) ==
  /\ NoneDone /\ req[p].pc = "idle"
  /\ req' = [req EXCEPT ![p] = [op |-> "getBookById", pc |-> "gb_find", book_id |-> bookId]]
  /\ UNCHANGED <<books, borrowers, borrowings, nextBookId, nextBorrowingId, today, migrationVars>>

\* BookService.getBookById: bookRepository.findById
GetBookFind(p) ==
  /\ NoneDone /\ req[p].op = "getBookById" /\ req[p].pc = "gb_find"
  /\ req' = [req EXCEPT ![p] =
       IF req[p].book_id \notin DOMAIN books THEN Done(@, ErrBookNotFound)
       ELSE Done(@, OK)]
  /\ UNCHANGED <<books, borrowers, borrowings, nextBookId, nextBorrowingId, today, migrationVars>>

\* DELETE /borrowers/:id arrives
DeleteBorrower(p, borrowerId) ==
  /\ NoneDone /\ req[p].pc = "idle"
  /\ req' = [req EXCEPT ![p] = [op |-> "deleteBorrower", pc |-> "dw_find",
                                 borrower_id |-> borrowerId]]
  /\ UNCHANGED <<books, borrowers, borrowings, nextBookId, nextBorrowingId, today, migrationVars>>

\* BorrowerService.deleteBorrower up to borrowerRepository.findById
DeleteBorrowerFind(p) ==
  /\ NoneDone /\ req[p].op = "deleteBorrower" /\ req[p].pc = "dw_find"
  /\ req' = [req EXCEPT ![p] =
       IF req[p].borrower_id \notin borrowers THEN Done(@, ErrBorrowerNotFound)
       ELSE At(@, "dw_current")]
  /\ UNCHANGED <<books, borrowers, borrowings, nextBookId, nextBorrowingId, today, migrationVars>>

\* deleteBorrower: borrowerRepository.getCurrentBooks
DeleteBorrowerCurrentBooks(p) ==
  /\ NoneDone /\ req[p].op = "deleteBorrower" /\ req[p].pc = "dw_current"
  /\ req' = [req EXCEPT ![p] =
       IF GetCurrentBooks(req[p].borrower_id) # {} THEN Done(@, ErrActiveBorrowerBorrowings)
       ELSE At(@, "dw_delete")]
  /\ UNCHANGED <<books, borrowers, borrowings, nextBookId, nextBorrowingId, today, migrationVars>>

\* BorrowerRepository.delete: DELETE FROM borrowers takes the row lock of the borrower
BorrowerRepositoryDelete(p) ==
  /\ NoneDone /\ req[p].op = "deleteBorrower" /\ req[p].pc = "dw_delete"
  /\ BorrowerLockHolders(req[p].borrower_id) = {}
  /\ req' = [req EXCEPT ![p] =
       IF req[p].borrower_id \notin borrowers THEN Done(@, ErrDeleteBorrower)
       ELSE At(@, "dw_cascade")]
  /\ UNCHANGED <<books, borrowers, borrowings, nextBookId, nextBorrowingId, today, migrationVars>>

\* DELETE FROM borrowers, its ON DELETE CASCADE on borrowings.borrower_id
BorrowerDeleteCascade(p) ==
  LET w == req[p].borrower_id
  IN /\ NoneDone /\ req[p].op = "deleteBorrower" /\ req[p].pc = "dw_cascade"
     /\ LockHoldersOf(OfBorrower(w)) = {}
     /\ borrowers' = borrowers \ {w}
     /\ borrowings' = Without(borrowings, OfBorrower(w))
     /\ req' = [req EXCEPT ![p] = Done(@, OK)]
     /\ UNCHANGED <<books, nextBookId, nextBorrowingId, today, migrationVars>>

\* ---------------------------------------------------------------- deadlock
\* q holds a row lock that the next statement of p waits for
WaitsFor(p, q) ==
  /\ p # q
  /\ \/ /\ NoneDone /\ req[p].op = "return" /\ req[p].pc = "r_update"
        /\ req[p].id \in DOMAIN borrowings
        /\ q \in BookLockHolders(borrowings[req[p].id].book_id)
     \/ /\ req[p].op = "checkout" /\ req[p].pc = "c_insert"
        /\ q \in BorrowerLockHolders(req[p].borrower_id)
     \/ /\ req[p].op \in {"deleteBook", "deleteBookByISBN"} /\ req[p].pc = "db_cascade"
        /\ q \in LockHoldersOf(OfBook(req[p].book_id))
     \/ /\ req[p].op = "deleteBorrower" /\ req[p].pc = "dw_cascade"
        /\ q \in LockHoldersOf(OfBorrower(req[p].borrower_id))

\* the requests p waits for, directly or through others
RECURSIVE WaitClosure(_, _)
WaitClosure(seen, n) ==
  IF n = 0 THEN seen
  ELSE WaitClosure(seen \cup {q \in Reqs : \E s \in seen : WaitsFor(s, q)}, n - 1)

Deadlocked(p) == p \in WaitClosure({q \in Reqs : WaitsFor(p, q)}, Cardinality(Reqs))

\* PostgreSQL's deadlock detector aborts one transaction of a cycle of waits: its
\* statement fails, the transaction is rolled back and the error is rethrown
DeadlockAbort(p) ==
  /\ NoneDone /\ Deadlocked(p)
  /\ req' = [req EXCEPT ![p] = Done(@, ErrDeadlock)]
  /\ UNCHANGED <<books, borrowers, borrowings, nextBookId, nextBorrowingId, today, migrationVars>>

\* ----------------------------------------------------------- environment
\* the response is sent; the caller may issue its next request
Respond(p) ==
  /\ req[p].pc = "done"
  /\ req' = [req EXCEPT ![p] = Idle]
  /\ UNCHANGED <<books, borrowers, borrowings, nextBookId, nextBorrowingId, today, migrationVars>>

\* midnight passes
Tick ==
  /\ NoneDone /\ today < MaxDay
  /\ today' = today + 1
  /\ UNCHANGED <<books, borrowers, borrowings, nextBookId, nextBorrowingId, req, migrationVars>>

\* ------------------------------------------------------------ initial state
\* a catalogue with one book (id 1, ISBN 1), all of whose copies are on the shelf,
\* every borrower registered and no loan yet
Init ==
  /\ \E q \in 1..MaxQty :
       books = [b \in {1} |-> [isbn |-> 1, available_quantity |-> q, total_quantity |-> q]]
  /\ borrowers = BorrowerIds
  /\ borrowings = [id \in {} |-> Null]
  /\ nextBookId = 2
  /\ nextBorrowingId = 1
  /\ today = 0
  /\ req = [p \in Reqs |-> Idle]
  /\ Migrated

CheckoutSteps(p) ==
  \/ CheckoutFindBook(p)
  \/ CheckoutFindBorrower(p)
  \/ CheckoutHasActive(p)
  \/ CreateLockBook(p)
  \/ CreateBorrowerCheck(p)
  \/ CreateInsertCommit(p)
  \/ CreateDetail(p)

ReturnSteps(p) ==
  \/ ReturnFindBorrowing(p)
  \/ ReturnLockBorrowing(p)
  \/ ReturnUpdateCommit(p)
  \/ ReturnDetail(p)

ExtendSteps(p) ==
  \/ ExtendLockBorrowing(p)
  \/ ExtendUpdateCommit(p)

EditSteps(p) ==
  \/ CreateBookFindByISBN(p)
  \/ BookRepositoryCreate(p)
  \/ UpdateBookFind(p)
  \/ UpdateBookIsbnExists(p)
  \/ BookRepositoryUpdate(p)

DeleteByISBNSteps(p) ==
  \/ DeleteByISBNFind(p)
  \/ DeleteByISBNHasActive(p)
  \/ BookRepositoryDeleteByISBN(p)

DeleteBookSteps(p) ==
  \/ DeleteBookFind(p)
  \/ DeleteBookHasActive(p)
  \/ BookRepositoryDelete(p)
  \/ BookDeleteCascade(p)

DeleteBorrowerSteps(p) ==
  \/ DeleteBorrowerFind(p)
  \/ DeleteBorrowerCurrentBooks(p)
  \/ BorrowerRepositoryDelete(p)
  \/ BorrowerDeleteCascade(p)

DeletionSteps(p) ==
  \/ DeleteBookSteps(p)
  \/ DeleteBorrowerSteps(p)

\* ------------------------------------------------------------ the requests
\* an id no borrower ever has (the sequence has not reached it)
UnknownBorrower == NumCallers + 1
\* a due date left out, one that is not in the future, one that is
DueInputs == {Null, today, today + 1}
\* a new due date that is not in the future, one that is but is earlier than the
\* due date of a default loan, and one that is later than it
NewDueInputs == {today, today + 1, today + DefaultLoanDays + 1}
\* the dates written in a due_date that has a time of day: yesterday, today, tomorrow
WrittenDates == {d \in {today - 1, today, today + 1} : d >= 0}
\* the sequence of borrowing ids has an id left for one more checkout
IdsLeft == nextBorrowingId + Cardinality(InFlightCheckouts) <= MaxBorrowings

\* --------------------------------------------------- circulation, two clients
\* checkouts and returns of two concurrent clients, over the days
CirculationCall(p) ==
  \/ \E b \in BookIds, w \in {1, UnknownBorrower}, d \in {Null, today} :
       IdsLeft /\ CheckoutBook(p, b, w, d)
  \/ \E id \in BorrowingIds : ReturnBook(p, id)

NextCirc ==
  \/ \E p \in Clients : CirculationCall(p) \/ CheckoutSteps(p) \/ ReturnSteps(p) \/ Respond(p)
  \/ Tick

SpecCirc == Init /\ [][NextCirc]_vars

\* ------------------------------------ circulation with extensions, two clients
\* checkouts, returns and extensions of two concurrent clients within one day
ExtensionCall(p) ==
  \/ \E w \in {1, UnknownBorrower}, d \in {Null, today} : IdsLeft /\ CheckoutBook(p, 1, w, d)
  \/ \E id \in BorrowingIds : ReturnBook(p, id)
  \/ \E id \in BorrowingIds, d \in NewDueInputs, valid \in BOOLEAN :
       ExtendDueDate(p, id, d, valid, Null)

NextExt ==
  \E p \in Clients :
    ExtensionCall(p) \/ CheckoutSteps(p) \/ ReturnSteps(p) \/ ExtendSteps(p) \/ Respond(p)

SpecExt == Init /\ [][NextExt]_vars

\* Scheduling: the event loop runs every continuation that is ready, a statement
\* waiting for a row lock is queued and gets the lock when its turn comes (strong
\* fairness of the steps of a call), and every response is sent.
FairSteps(p) == CheckoutSteps(p) \/ ReturnSteps(p) \/ ExtendSteps(p)
FairExt == \A p \in Clients : SF_vars(FairSteps(p)) /\ WF_vars(Respond(p))
SpecExtFair == SpecExt /\ FairExt

\* ------------------------------------------------- circulation, one client
\* the checkouts and returns of a client that waits for each answer before its next
\* call, over the days
SeqClient == NumCallers + 1

SeqCall(p) ==
  \/ \E b \in BookIds, w \in {1, UnknownBorrower}, d \in DueInputs :
       IdsLeft /\ CheckoutBook(p, b, w, d)
  \/ \E id \in BorrowingIds : ReturnBook(p, id)

NextSeq ==
  \/ \E p \in {SeqClient} : SeqCall(p) \/ CheckoutSteps(p) \/ ReturnSteps(p) \/ Respond(p)
  \/ Tick

SpecSeq == Init /\ [][NextSeq]_vars

\* ------------------------------------- inventory edits among loans, two clients
\* the quantities a new book is given: none on the shelf of one copy, more on the
\* shelf than there are copies, a negative number of copies
CreateInputs == {<<0, 1>>, <<MaxQty, 1>>, <<0 - 1, 0>>}
\* the edits of a book: all copies on the shelf, one copy in all, another ISBN
UpdateInputs == {[available_quantity |-> MaxQty], [total_quantity |-> 1], [isbn |-> MaxBooks]}

\* two concurrent clients: one borrower's checkouts and returns of book 1 among
\* creations of a book, edits of book 1 and adjustments of its counter
InventoryCall(p) ==
  \/ \E q \in CreateInputs : CreateBook(p, MaxBooks, q[1], q[2])
  \/ \E u \in UpdateInputs : UpdateBook(p, 1, u)
  \/ \E d \in {0 - 1, 1} : UpdateBookAvailability(p, 1, d)
  \/ IdsLeft /\ CheckoutBook(p, 1, 1, Null)
  \/ \E id \in BorrowingIds : ReturnBook(p, id)

NextInv ==
  \E p \in Clients :
    \/ InventoryCall(p) \/ EditSteps(p) \/ UpdateAvailability(p)
    \/ CheckoutSteps(p) \/ ReturnSteps(p) \/ Respond(p)

SpecInv == Init /\ [][NextInv]_vars

\* ------------------------------ deletions and edits among loans, two clients
\* two concurrent clients: borrower 1's checkouts and returns of book 1 among
\* creations of a book, edits of book 1 and deletions of book 1 and of borrower 1
DeletionCall(p) ==
  \/ CreateBook(p, MaxBooks, 0, 1)
  \/ \E u \in UpdateInputs : UpdateBook(p, 1, u)
  \/ DeleteBook(p, 1)
  \/ DeleteBorrower(p, 1)
  \/ IdsLeft /\ CheckoutBook(p, 1, 1, Null)
  \/ \E id \in BorrowingIds : ReturnBook(p, id)

NextDel ==
  \E p \in Clients :
    \/ DeletionCall(p) \/ EditSteps(p) \/ DeletionSteps(p) \/ DeadlockAbort(p)
    \/ CheckoutSteps(p) \/ ReturnSteps(p) \/ Respond(p)

SpecDel == Init /\ [][NextDel]_vars

\* ------------------------------- deletions and edits among loans, one client
\* the same calls made by a client that waits for each answer before its next call
NextSeqDel ==
  \E p \in {SeqClient} :
    \/ DeletionCall(p) \/ EditSteps(p) \/ DeletionSteps(p)
    \/ CheckoutSteps(p) \/ ReturnSteps(p) \/ Respond(p)

SpecSeqDel == Init /\ [][NextSeqDel]_vars

\* ----------------------------------- removal of books among loans, one client
\* a client that waits for each answer: it lends and takes back the books, removes
\* them by id or by ISBN, looks them up and puts a book with a free ISBN on the shelf
RemovalCall(p) ==
  \/ \E b \in BookIds : IdsLeft /\ CheckoutBook(p, b, 1, Null)
  \/ \E id \in BorrowingIds : ReturnBook(p, id)
  \/ \E b \in BookIds : DeleteBook(p, b)
  \/ \E i \in Isbns : DeleteBookByISBN(p, i)
  \/ \E b \in BookIds : GetBookById(p, b)
  \/ \E i \in Isbns : CreateBook(p, i, 1, 1)

NextRemoval ==
  \E p \in {SeqClient} :
    \/ RemovalCall(p) \/ CheckoutSteps(p) \/ ReturnSteps(p) \/ DeleteBookSteps(p)
    \/ DeleteByISBNSteps(p) \/ GetBookFind(p)
    \/ CreateBookFindByISBN(p) \/ BookRepositoryCreate(p) \/ Respond(p)

SpecRemoval == Init /\ [][NextRemoval]_vars

\* ----------------------------------- a deletion of the book among checkouts
\* caller 1 deletes the book once while every other caller, a borrower of its own,
\* asks for the book once
Deleter == 1

NextDeleteRace ==
  \/ DeleteBook(Deleter, 1) \/ DeleteBookSteps(Deleter)
  \/ \E p \in Callers \ {Deleter} : CheckoutBook(p, 1, p, Null) \/ CheckoutSteps(p)

SpecDeleteRace == Init /\ [][NextDeleteRace]_vars

\* ------------------------------- a deletion of the borrower among checkouts
\* caller 1 deletes a borrower once while every other caller asks once for the book
\* in the name of that borrower
Borrower == 2

NextDeleteBorrowerRace ==
  \/ DeleteBorrower(Deleter, Borrower) \/ DeleteBorrowerSteps(Deleter)
  \/ \E p \in Callers \ {Deleter} : CheckoutBook(p, 1, Borrower, Null) \/ CheckoutSteps(p)

SpecDeleteBorrowerRace == Init /\ [][NextDeleteBorrowerRace]_vars

\* --------------------------------------------- a checkout and its return
\* Books 1 and 2 start with the same counts.  One caller checks out book 1 and
\* another returns borrowing 1, the borrowing that checkout creates, on the same
\* day or a later one; nothing is ever done to book 2, which keeps the counts that
\* book 1 had before the checkout.
Lender == 1
Returner == 2

InitRoundTrip ==
  /\ \E t \in 1..MaxQty, a \in 0..MaxQty :
       /\ a <= t
       /\ books = [b \in 1..2 |-> [isbn |-> b, available_quantity |-> a, total_quantity |-> t]]
  /\ borrowers = BorrowerIds
  /\ borrowings = [id \in {} |-> Null]
  /\ nextBookId = 3
  /\ nextBorrowingId = 1
  /\ today = 0
  /\ req = [p \in Reqs |-> Idle]
  /\ Migrated

NextRoundTrip ==
  \/ CheckoutBook(Lender, 1, 1, Null) \/ CheckoutSteps(Lender)
  \/ ReturnBook(Returner, 1) \/ ReturnSteps(Returner)
  \/ Tick

SpecRoundTrip == InitRoundTrip /\ [][NextRoundTrip]_vars

\* ------------------------------------- the dates of borrowings, one client
\* a client that waits for each answer, over the days: checkouts with the due date
\* left out, a plain date or a moment after now, extensions and returns
DatesCall(p) ==
  \/ \E d \in DueInputs : IdsLeft /\ CheckoutBook(p, 1, 1, d)
  \/ \E d \in WrittenDates : IdsLeft /\ Checkout(p, 1, 1, d, "ahead")
  \/ \E id \in BorrowingIds : ReturnBook(p, id)
  \/ \E id \in BorrowingIds, d \in NewDueInputs : ExtendDueDate(p, id, d, TRUE, Null)

NextDates ==
  \/ \E p \in {SeqClient} :
       DatesCall(p) \/ CheckoutSteps(p) \/ ReturnSteps(p) \/ ExtendSteps(p) \/ Respond(p)
  \/ Tick

SpecDates == Init /\ [][NextDates]_vars

\* ---------------------------------------------------------------------------
\* Overdue computation: the derived fields of a borrowing and the overdue list
\* ---------------------------------------------------------------------------

\* The clock is read in ticks; a DATE value is the first tick of its day.
TicksPerDay == 2
TimesOfDay == 0..(TicksPerDay - 1)

\* new Date(): the moment of the clock read, time ticks into the current day
Now(time) == today * TicksPerDay + time
\* new Date(due_date): a DATE column read back as the midnight of that day
DateValue(date) == date * TicksPerDay

\* Math.ceil(a / n), n > 0
Ceil(a, n) == -((-a) \div n)
Max(a, b) == IF a >= b THEN a ELSE b

\* BorrowingDTO.toDetailedBorrowingResponse: is_overdue and days_overdue are
\* computed from the moment of the clock read
ToDetailedBorrowingResponse(id, time) ==
  LET b == borrowings[id] IN
  [ id           |-> id,
    due_date     |-> b.due_date,
    return_date  |-> b.return_date,
    is_overdue   |-> b.return_date = Null /\ DateValue(b.due_date) < Now(time),
    days_overdue |-> IF b.return_date = Null
                       THEN Max(0, Ceil(Now(time) - DateValue(b.due_date), TicksPerDay))
                       ELSE 0 ]

\* BorrowingRepository.findOverdue:
\* WHERE return_date IS NULL AND due_date < CURRENT_DATE
FindOverdue ==
  {id \in DOMAIN borrowings :
     borrowings[id].return_date = Null /\ borrowings[id].due_date < today}

\* BorrowingService.getBorrowingById
GetBorrowingById(p, id) ==
  /\ NoneDone /\ req[p].pc = "idle"
  /\ req' = [req EXCEPT ![p] = [op |-> "getBorrowingById", pc |-> "gl_find", id |-> id]]
  /\ UNCHANGED <<books, borrowers, borrowings, nextBookId, nextBorrowingId, today, migrationVars>>

\* findById, then 'Borrowing not found' or the detailed response
GetBorrowingFind(p) ==
  /\ NoneDone /\ req[p].op = "getBorrowingById" /\ req[p].pc = "gl_find"
  /\ \E time \in TimesOfDay :
       req' = [req EXCEPT ![p] =
                 IF req[p].id \in DOMAIN borrowings
                   THEN Done(@, ToDetailedBorrowingResponse(req[p].id, time))
                   ELSE Done(@, ErrBorrowingNotFound)]
  /\ UNCHANGED <<books, borrowers, borrowings, nextBookId, nextBorrowingId, today, migrationVars>>

\* BorrowingService.getOverdueBorrowings
GetOverdueBorrowings(p) ==
  /\ NoneDone /\ req[p].pc = "idle"
  /\ req' = [req EXCEPT ![p] = [op |-> "getOverdueBorrowings", pc |-> "go_find"]]
  /\ UNCHANGED <<books, borrowers, borrowings, nextBookId, nextBorrowingId, today, migrationVars>>

\* findOverdue, then each row through toDetailedBorrowingResponse
GetOverdueFind(p) ==
  /\ NoneDone /\ req[p].op = "getOverdueBorrowings" /\ req[p].pc = "go_find"
  /\ \E time \in TimesOfDay :
       req' = [req EXCEPT ![p] =
                 Done(@, [overdue_borrowings |->
                            {ToDetailedBorrowingResponse(id, time) : id \in FindOverdue},
                          total_overdue |-> Cardinality(FindOverdue)])]
  /\ UNCHANGED <<books, borrowers, borrowings, nextBookId, nextBorrowingId, today, migrationVars>>

OverdueSteps(p) == GetBorrowingFind(p) \/ GetOverdueFind(p)

\* one client lends, takes back and looks at loans while the days pass
OverdueCall(p) ==
  \/ \E d \in DueInputs : IdsLeft /\ CheckoutBook(p, 1, 1, d)
  \/ \E d \in WrittenDates : IdsLeft /\ Checkout(p, 1, 1, d, "ahead")
  \/ \E id \in BorrowingIds : ReturnBook(p, id)
  \/ \E id \in BorrowingIds : GetBorrowingById(p, id)
  \/ GetOverdueBorrowings(p)

NextOverdue ==
  \/ \E p \in {SeqClient} :
       OverdueCall(p) \/ CheckoutSteps(p) \/ ReturnSteps(p) \/ OverdueSteps(p) \/ Respond(p)
  \/ Tick

SpecOverdue == Init /\ [][NextOverdue]_vars

\* one client lends and takes back, with and without a return_date in the
\* request; days pass between calls
ReturnDateInputs == {Null, today, today + 1}

ReturnDatesCall(p) ==
  \/ \E d \in DueInputs : IdsLeft /\ CheckoutBook(p, 1, 1, d)
  \/ \E id \in BorrowingIds, d \in ReturnDateInputs : Return(p, id, d)

NextReturnDates ==
  \/ \E p \in {SeqClient} :
       ReturnDatesCall(p) \/ CheckoutSteps(p) \/ ReturnSteps(p) \/ Respond(p)
  \/ req[SeqClient].pc = "idle" /\ Tick

SpecReturnDates == Init /\ [][NextReturnDates]_vars

\* ---------------------------------------------------------------------------
\* Low availability: the books that are about to run out
\* ---------------------------------------------------------------------------

\* titles, as their ranks in the collation order
Titles == 1..MaxBooks
Thresholds == 0..MaxQty

\* (a faulty variant: books with no copy left are listed too)
LowAvailabilityWithSoldOut(threshold) ==
  {b \in DOMAIN books : books[b].available_quantity <= threshold}

\* WHERE available_quantity <= $1 AND available_quantity > 0
LowAvailability(threshold) ==
  {b \in DOMAIN books :
     books[b].available_quantity <= threshold /\ books[b].available_quantity > 0}

\* ORDER BY available_quantity ASC, title ASC
ScarcerOrSame(a, b) ==
  \/ books[a].available_quantity < books[b].available_quantity
  \/ /\ books[a].available_quantity = books[b].available_quantity
     /\ books[a].title <= books[b].title

\* the row sequences the query can return: the matching rows in that order (rows
\* equal in both keys come in either order)
FindLowAvailability(threshold) ==
  LET rows == LowAvailability(threshold)
      n == Cardinality(rows)
  IN {s \in [1..n -> rows] :
        /\ \A i, j \in 1..n : i # j => s[i] # s[j]
        /\ \A i, j \in 1..n : i < j => ScarcerOrSame(s[i], s[j])}

\* BookController.getLowAvailability
GetLowAvailability(p, threshold) ==
  /\ NoneDone /\ req[p].pc = "idle"
  /\ req' = [req EXCEPT ![p] = [op |-> "getLowAvailabilityBooks", pc |-> "la_find",
                                threshold |-> threshold]]
  /\ UNCHANGED <<books, borrowers, borrowings, nextBookId, nextBorrowingId, today, migrationVars>>

\* BookService.getLowAvailabilityBooks: the rows of findLowAvailability, in order
GetLowAvailabilityBooks(p) ==
  /\ NoneDone /\ req[p].op = "getLowAvailabilityBooks" /\ req[p].pc = "la_find"
  /\ \E s \in FindLowAvailability(req[p].threshold) :
       req' = [req EXCEPT ![p] = Done(@, s)]
  /\ UNCHANGED <<books, borrowers, borrowings, nextBookId, nextBorrowingId, today, migrationVars>>

\* MaxBooks books with titles of any ranks, all copies on the shelf
InitLowAvailability ==
  /\ \E t \in [BookIds -> Titles] :
       books = [b \in BookIds |-> [isbn |-> b, title |-> t[b],
                                    available_quantity |-> MaxQty,
                                    total_quantity |-> MaxQty]]
  /\ borrowers = BorrowerIds
  /\ borrowings = [id \in {} |-> Null]
  /\ nextBookId = MaxBooks + 1
  /\ nextBorrowingId = 1
  /\ today = 0
  /\ req = [p \in Reqs |-> Idle]
  /\ Migrated

\* one client moves the counters of the books and asks for the scarce ones
NextLowAvailability ==
  \E p \in {SeqClient} :
    \/ \E b \in BookIds, d \in {0 - 1, 1} : UpdateBookAvailability(p, b, d)
    \/ UpdateAvailability(p)
    \/ \E threshold \in Thresholds : GetLowAvailability(p, threshold)
    \/ GetLowAvailabilityBooks(p)
    \/ Respond(p)

SpecLowAvailability == InitLowAvailability /\ [][NextLowAvailability]_vars

\* ---------------------------------------------------------------------------
\* Listing borrowings: filters, order and pages
\* ---------------------------------------------------------------------------

Min(a, b) == IF a <= b THEN a ELSE b

\* parseInt(x) || d, for a parameter that is absent or a number
OrDefault(x, d) == IF x = Null \/ x = 0 THEN d ELSE x

\* BorrowingDTO.fromSearchQuery
FromSearchQuery(queryParams) ==
  [ borrower_id |-> queryParams.borrower_id,
    book_id     |-> queryParams.book_id,
    status      |-> IF queryParams.status \in {"all", "active", "returned", "overdue"}
                    THEN queryParams.status ELSE "all",
    page        |-> Max(1, OrDefault(queryParams.page, 1)),
    limit       |-> Min(100, Max(1, OrDefault(queryParams.limit, 10))),
    sortBy      |-> IF queryParams.sortBy \in {"checkout_date", "due_date", "return_date"}
                    THEN queryParams.sortBy ELSE "checkout_date",
    sortOrder   |-> IF queryParams.sortOrder \in {"ASC", "DESC"}
                    THEN queryParams.sortOrder ELSE "DESC" ]

\* (a faulty variant: the book filter is left out of the WHERE clause)
WhereWithoutBook(options) ==
  {id \in DOMAIN borrowings :
     /\ (options.borrower_id # Null /\ options.borrower_id # 0)
          => borrowings[id].borrower_id = options.borrower_id
     /\ options.status = "active" => borrowings[id].return_date = Null
     /\ options.status = "returned" => borrowings[id].return_date # Null
     /\ options.status = "overdue" =>
          (borrowings[id].return_date = Null /\ borrowings[id].due_date < today)}

\* BorrowingRepository.findAll: the rows its WHERE clause selects
Where(options) ==
  {id \in DOMAIN borrowings :
     /\ (options.borrower_id # Null /\ options.borrower_id # 0)
          => borrowings[id].borrower_id = options.borrower_id
     /\ (options.book_id # Null /\ options.book_id # 0)
          => borrowings[id].book_id = options.book_id
     /\ options.status = "active" => borrowings[id].return_date = Null
     /\ options.status = "returned" => borrowings[id].return_date # Null
     /\ options.status = "overdue" =>
          (borrowings[id].return_date = Null /\ borrowings[id].due_date < today)}

\* the value of the sort column of a row
SortValue(id, sortBy) ==
  CASE sortBy = "checkout_date" -> borrowings[id].checkout_date
    [] sortBy = "due_date"      -> borrowings[id].due_date
    [] sortBy = "return_date"   -> borrowings[id].return_date

\* ORDER BY br.<sortBy> <sortOrder>: row a may come before row b (a null sorts
\* as larger than every value)
MayPrecede(a, b, sortBy, sortOrder) ==
  LET x == SortValue(a, sortBy)
      y == SortValue(b, sortBy)
      lessOrEqual(u, v) == v = Null \/ (u # Null /\ u <= v)
  IN IF sortOrder = "ASC" THEN lessOrEqual(x, y) ELSE lessOrEqual(y, x)

\* BorrowingRepository.findAll: the answers the two queries can give
FindAll(options) ==
  LET rows == Where(options)
      n == Cardinality(rows)
      offset == (options.page - 1) * options.limit
  IN { [ borrowings |-> SubSeq(s, offset + 1, Min(n, offset + options.limit)),
         pagination |-> [ page |-> options.page, limit |-> options.limit, total |-> n,
                          totalPages |-> Ceil(n, options.limit) ] ] :
       s \in {t \in [1..n -> rows] :
                /\ \A i, j \in 1..n : i # j => t[i] # t[j]
                /\ \A i, j \in 1..n :
                     i < j => MayPrecede(t[i], t[j], options.sortBy, options.sortOrder)} }

\* BorrowingController.getAll with the query of the request
GetAll(p, query) ==
  /\ NoneDone /\ req[p].pc = "idle"
  /\ req' = [req EXCEPT ![p] = [op |-> "getAllBorrowings", pc |-> "ga_find",
                                query |-> query]]
  /\ UNCHANGED <<books, borrowers, borrowings, nextBookId, nextBorrowingId, today, migrationVars>>

\* BorrowingService.getAllBorrowings
GetAllBorrowings(p) ==
  /\ NoneDone /\ req[p].op = "getAllBorrowings" /\ req[p].pc = "ga_find"
  /\ \E result \in FindAll(FromSearchQuery(req[p].query)) :
       req' = [req EXCEPT ![p] = [op |-> "getAllBorrowings", pc |-> "done",
                                  query |-> req[p].query, result |-> result]]
  /\ UNCHANGED <<books, borrowers, borrowings, nextBookId, nextBorrowingId, today, migrationVars>>

\* the queries of the listing: ids are positive, numbers may be absent or 0
Queries ==
  { [ borrower_id |-> w, book_id |-> b, status |-> st, page |-> pg[1], limit |-> pg[2],
      sortBy |-> so[1], sortOrder |-> so[2] ] :
    w \in {Null, 1, 2}, b \in {Null, 1, 2},
    st \in {"all", "active", "returned", "overdue", "pending"},
    pg \in {<<0, 1>>, <<2, 1>>, <<Null, 101>>},
    so \in {<<"due_date", "ASC">>, <<"title", "up">>} }

\* two books, every copy on the shelf
InitListing ==
  /\ books = [b \in 1..2 |-> [isbn |-> b, available_quantity |-> MaxQty,
                               total_quantity |-> MaxQty]]
  /\ borrowers = BorrowerIds
  /\ borrowings = [id \in {} |-> Null]
  /\ nextBookId = 3
  /\ nextBorrowingId = 1
  /\ today = 0
  /\ req = [p \in Reqs |-> Idle]
  /\ Migrated

\* one client lends the two books to two borrowers until the end of the day
\* (the due date as a date-time with a zone), takes them back and lists
\* the borrowings; days pass between calls
ListingCall(p) ==
  \/ \E c \in {<<1, 1>>, <<2, 1>>, <<1, 2>>} : IdsLeft /\ Checkout(p, c[1], c[2], today, "ahead")
  \/ \E id \in BorrowingIds : ReturnBook(p, id)
  \/ \E query \in Queries : GetAll(p, query)

NextListing ==
  \/ \E p \in {SeqClient} :
       ListingCall(p) \/ CheckoutSteps(p) \/ ReturnSteps(p) \/ GetAllBorrowings(p) \/ Respond(p)
  \/ req[SeqClient].pc = "idle" /\ Tick

SpecListing == InitListing /\ [][NextListing]_vars

\* ------------------------------------------------------- MigrationManager
\* One operator runs the commands of the manager one after the other; the
\* record of the last command (its locals and the versions whose function it
\* called, in order) stays until the next command starts.
ManagerAtRest == {"idle", "done", "failed"}
\* the up and down functions are code of the migration file: a call of one
\* either completes or throws
MigrationOutcomes == {"completes", "throws"}

RECURSIVE Ascending(_)
\* the versions of a set in ascending order (Array.prototype.sort, ORDER BY version)
Ascending(S) ==
  IF S = {} THEN <<>>
  ELSE LET least == CHOOSE v \in S : \A w \in S : v <= w
       IN <<least>> \o Ascending(S \ {least})

Range(s) == {s[i] : i \in 1..Len(s)}
Reverse(s) == [i \in 1..Len(s) |-> s[Len(s) + 1 - i]]
\* Array.prototype.slice(-steps): the last steps elements, the whole array
\* when it is shorter, and also when steps is 0 (slice(-0) is slice(0))
SliceFromEnd(s, steps) ==
  IF steps = 0 \/ steps >= Len(s) THEN s ELSE SubSeq(s, Len(s) - steps + 1, Len(s))

GetExecutedMigrations == Ascending(schema_migrations)
GetMigrationFiles == Ascending(migrationFiles)

GetAllMigrations(executed, available) == available
GetPendingMigrations(executed, available) ==
  SelectSeq(available, LAMBDA version : version \notin Range(executed))

\* migrate: nothing to do when no migration is pending
Migrate ==
  /\ manager.pc \in ManagerAtRest
  /\ LET executed == GetExecutedMigrations
         available == GetMigrationFiles
         pending == GetPendingMigrations(executed, available)
     IN manager' = [op |-> "migrate", steps |-> Null, executed |-> executed,
                    available |-> available, queue |-> pending, ran |-> <<>>,
                    pc |-> IF pending = <<>> THEN "done" ELSE "up"]
  /\ UNCHANGED <<migrationFiles, schema_migrations, libraryVars>>

\* executeMigrationUp: the up function of the next pending migration is called
ExecuteMigrationUp ==
  /\ manager.pc = "up"
  /\ \E outcome \in MigrationOutcomes :
       manager' = [manager EXCEPT !.ran = Append(@, Head(manager.queue)),
                                  !.pc = IF outcome = "completes" THEN "record" ELSE "failed"]
  /\ UNCHANGED <<migrationFiles, schema_migrations, libraryVars>>

\* executeMigrationUp: INSERT INTO schema_migrations (version is UNIQUE), then
\* the loop of migrate goes on
RecordMigration ==
  /\ manager.pc = "record"
  /\ LET version == Head(manager.queue) IN
       IF version \in schema_migrations
       THEN /\ manager' = [manager EXCEPT !.pc = "failed"]
            /\ UNCHANGED schema_migrations
       ELSE /\ schema_migrations' = schema_migrations \cup {version}
            /\ manager' = [manager EXCEPT !.queue = Tail(@),
                             !.pc = IF Tail(manager.queue) = <<>> THEN "done" ELSE "up"]
  /\ UNCHANGED <<migrationFiles, libraryVars>>

\* rollback(steps): nothing to do when no migration is recorded
Rollback(steps) ==
  /\ manager.pc \in ManagerAtRest
  /\ LET executed == GetExecutedMigrations
         toRollback == IF executed = <<>> THEN <<>>
                       ELSE Reverse(SliceFromEnd(executed, steps))
     IN manager' = [op |-> "rollback", steps |-> steps, executed |-> executed,
                    available |-> <<>>, queue |-> toRollback, ran |-> <<>>,
                    pc |-> IF toRollback = <<>> THEN "done" ELSE "down"]
  /\ UNCHANGED <<migrationFiles, schema_migrations, libraryVars>>

\* executeMigrationDown: the down function of the next migration to roll back
ExecuteMigrationDown ==
  /\ manager.pc = "down"
  /\ \E outcome \in MigrationOutcomes :
       manager' = [manager EXCEPT !.ran = Append(@, Head(manager.queue)),
                                  !.pc = IF outcome = "completes" THEN "delete" ELSE "failed"]
  /\ UNCHANGED <<migrationFiles, schema_migrations, libraryVars>>

\* executeMigrationDown: DELETE FROM schema_migrations, then the loop of
\* rollback goes on
RemoveMigrationRecord ==
  /\ manager.pc = "delete"
  /\ schema_migrations' = schema_migrations \ {Head(manager.queue)}
  /\ manager' = [manager EXCEPT !.queue = Tail(@),
                   !.pc = IF Tail(manager.queue) = <<>> THEN "done" ELSE "down"]
  /\ UNCHANGED <<migrationFiles, libraryVars>>

\* createMigration: a file named after the current time, which is later than
\* the time of every file there is
CreateMigration ==
  /\ \E version \in Versions :
       /\ \A other \in migrationFiles : other < version
       /\ \A earlier \in Versions : earlier < version => earlier \in migrationFiles
       /\ migrationFiles' = migrationFiles \cup {version}
  /\ UNCHANGED <<schema_migrations, manager, libraryVars>>

\* a fresh database and a directory that holds the first migrations
InitMigrations ==
  /\ books = [b \in {} |-> Null]
  /\ borrowers = {}
  /\ borrowings = [id \in {} |-> Null]
  /\ nextBookId = 1
  /\ nextBorrowingId = 1
  /\ today = 0
  /\ req = [p \in Reqs |-> Idle]
  /\ \E n \in 0..MaxMigrations : migrationFiles = 1..n
  /\ schema_migrations = {}
  /\ manager = ManagerIdle

NextMigrations ==
  \/ Migrate
  \/ \E steps \in 1..MaxMigrations : Rollback(steps)
  \/ ExecuteMigrationUp
  \/ RecordMigration
  \/ ExecuteMigrationDown
  \/ RemoveMigrationRecord
  \/ CreateMigration

SpecMigrations == InitMigrations /\ [][NextMigrations]_vars

\* ---------------------------------------------------------------------------
\* BorrowingController: what the caller of the HTTP interface receives
\* ---------------------------------------------------------------------------

\* the message BorrowingController.checkout compares with for its 400 answer
ErrNotAvailable == "Book not available for checkout"

\* BorrowingController.checkout: 201, 404, 400, or the generic 500
CheckoutStatus(result) ==
  IF result = OK THEN 201
  ELSE IF result = ErrBookNotFound \/ result = ErrBorrowerNotFound THEN 404
  ELSE IF result = ErrNotAvailable THEN 400
  ELSE 500

\* BorrowingController.returnBook: 200, 404, 400, or the generic 500
ReturnBookStatus(result) ==
  IF result = OK THEN 200
  ELSE IF result = ErrBorrowingNotFound THEN 404
  ELSE IF result = ErrAlreadyReturned THEN 400
  ELSE 500

\* BorrowingController.extendDueDate: 200, 404, or the generic 500
ExtendDueDateStatus(result) ==
  IF result = OK THEN 200
  ELSE IF result = ErrActiveNotFound THEN 404
  ELSE 500

\* the status of the answer to a finished call r
ResponseStatus(r) ==
  CASE r.op = "checkout" -> CheckoutStatus(r.result)
    [] r.op = "return"   -> ReturnBookStatus(r.result)
    [] r.op = "extend"   -> ExtendDueDateStatus(r.result)

\* ------------------------------------------- N checkouts of one book at once
\* the book has k copies, all on the shelf, with k less than the number of callers;
\* caller p is borrower p, and each caller asks for the book once
InitCheckouts ==
  /\ \E k \in 0..MaxQty :
       /\ k < NumCallers
       /\ books = [b \in {1} |-> [isbn |-> 1, available_quantity |-> k, total_quantity |-> k]]
  /\ borrowers = BorrowerIds
  /\ borrowings = [id \in {} |-> Null]
  /\ nextBookId = 2
  /\ nextBorrowingId = 1
  /\ today = 0
  /\ req = [p \in Reqs |-> Idle]
  /\ Migrated

NextCheckouts == \E p \in Callers : CheckoutBook(p, 1, p, Null) \/ CheckoutSteps(p)

SpecCheckouts == InitCheckouts /\ [][NextCheckouts]_vars

\* ---------------------------------------------- N returns of one loan at once
\* borrower 1 has the one loan of the book that is out; each caller returns it once
InitReturns ==
  /\ \E t \in 1..MaxQty :
       books = [b \in {1} |-> [isbn |-> 1, available_quantity |-> t - 1, total_quantity |-> t]]
  /\ borrowers = BorrowerIds
  /\ borrowings = [id \in {1} |-> [book_id |-> 1, borrower_id |-> 1, checkout_date |-> 0,
                                    due_date |-> DefaultLoanDays, return_date |-> Null]]
  /\ nextBookId = 2
  /\ nextBorrowingId = 2
  /\ today = 0
  /\ req = [p \in Reqs |-> Idle]
  /\ Migrated

NextReturns == \E p \in Callers : ReturnBook(p, 1) \/ ReturnSteps(p)

SpecReturns == InitReturns /\ [][NextReturns]_vars

\* -------------------------------------------------------------- properties
\* the callers of a scenario whose call ended with the given result
Ended(result) == {p \in Callers : req[p].pc = "done" /\ req[p].result = result}
AllEnded == \A p \in Callers : req[p].pc = "done"

\* C1: under checkouts and returns of concurrent clients, every committed state has,
\* for every book, available_quantity = total_quantity - (its borrowings with
\* return_date null).
C1_CounterMatchesActiveLoans ==
  \A b \in DOMAIN books :
    books[b].available_quantity = books[b].total_quantity - Cardinality(ActiveOfBook(b))

\* a book with a loan that was returned and a loan that is out
C1_Witness ==
  \E i, j \in DOMAIN borrowings :
    /\ borrowings[i].book_id = borrowings[j].book_id
    /\ borrowings[i].return_date # Null
    /\ IsActive(j)
    /\ books[borrowings[j].book_id].available_quantity
         < books[borrowings[j].book_id].total_quantity

\* C2: with creations, edits and deletions of books and deletions of borrowers among
\* the checkouts and returns, every book's available_quantity and its number of
\* active loans still add up to its total_quantity.
C2_CounterMatchesUnderEdits ==
  \A b \in DOMAIN books :
    books[b].available_quantity + Cardinality(ActiveOfBook(b)) = books[b].total_quantity

\* C3: when N borrowers check out a book with k < N copies at once, the counter is
\* never negative and, when all calls have ended, exactly k have succeeded, the
\* other N - k have failed with 'Book is not available for checkout' and the
\* counter is 0 (k is the total_quantity of the book, which no call changes).
C3_ExactlyKCheckoutsSucceed ==
  /\ books[1].available_quantity >= 0
  /\ Cardinality(Ended(OK)) <= books[1].total_quantity
  /\ AllEnded =>
       /\ Cardinality(Ended(OK)) = books[1].total_quantity
       /\ Cardinality(Ended(ErrUnavailable)) = NumCallers - books[1].total_quantity
       /\ books[1].available_quantity = 0

\* all calls have ended, some with a loan and some without
C3_Witness ==
  /\ AllEnded
  /\ Ended(OK) # {}
  /\ Ended(ErrUnavailable) # {}
  /\ Cardinality(DOMAIN borrowings) = books[1].total_quantity

\* C4: when the same active borrowing is returned by concurrent calls, at most one
\* call succeeds and the counter is incremented at most once at any time and, when
\* all calls have ended, exactly one has succeeded, every other has failed with
\* 'Book has already been returned' or 'Active borrowing not found', and the
\* counter is one more than it was.
C4_ExactlyOneReturnSucceeds ==
  /\ Cardinality(Ended(OK)) <= 1
  /\ books[1].available_quantity <= books[1].total_quantity
  /\ AllEnded =>
       /\ Cardinality(Ended(OK)) = 1
       /\ Ended(ErrAlreadyReturned) \cup Ended(ErrActiveNotFound) = Callers \ Ended(OK)
       /\ books[1].available_quantity = books[1].total_quantity
       /\ borrowings[1].return_date # Null

\* all calls have ended, one of the failed ones after waiting for the row lock and
\* another at the first read of the service
C4_Witness ==
  /\ AllEnded
  /\ Ended(OK) # {}
  /\ Ended(ErrActiveNotFound) # {}
  /\ Ended(ErrAlreadyReturned) # {}

QuantityErrors == {ErrAvailNegative, ErrTotalNegative, ErrAvailExceeds}
BooksCheckErrors == {ErrCheckAvailNonNeg, ErrCheckTotalNonNeg, ErrCheckAvailLteTotal}

QuantitiesWithinBounds ==
  \A b \in DOMAIN books :
    0 <= books[b].available_quantity /\ books[b].available_quantity <= books[b].total_quantity

\* the call of p is a createBook or an updateBook that, carried out now, would
\* leave quantities out of bounds
ViolatingEdit(p) ==
  LET r == req[p]
  IN \/ /\ r.op = "createBook" /\ r.pc = "cb_find"
        /\ ValidateQuantities(r.available_quantity,
                              FinalTotalQuantity(r.available_quantity, r.total_quantity)) # OK
     \/ /\ r.op = "createBook" /\ r.pc = "cb_insert"
        /\ ValidateQuantities(r.available_quantity, r.total_quantity) # OK
     \/ /\ r.op = "updateBook" /\ r.pc \in {"ub_find", "ub_isbn", "ub_update"}
        /\ r.book_id \in DOMAIN books
        /\ ValidateQuantities(Merge(books[r.book_id], r.updateData).available_quantity,
                              Merge(books[r.book_id], r.updateData).total_quantity) # OK

\* p's call ends in this step
Ends(p) == req[p].pc # "done" /\ req'[p].pc = "done"

\* C5 as stated: 0 <= available_quantity <= total_quantity in every state, and a
\* createBook or updateBook whose resulting quantities would be out of these bounds
\* ends with a quantity error and changes nothing.
C5_ViolatingEditGetsQuantityError ==
  /\ []QuantitiesWithinBounds
  /\ [][\A p \in Clients :
          (ViolatingEdit(p) /\ Ends(p)) =>
            (req'[p].result \in QuantityErrors /\ stores' = stores)]_vars

\* C5, amended: 0 <= available_quantity <= total_quantity in every state, and a
\* createBook or updateBook whose resulting quantities would be out of these bounds
\* changes nothing and ends with a quantity error or, only when the row of the book
\* has changed since the call read it, with the error of a CHECK constraint of the
\* books table.
C5_ViolatingEditIsRejected ==
  /\ []QuantitiesWithinBounds
  /\ [][\A p \in Clients :
          (ViolatingEdit(p) /\ Ends(p)) =>
               /\ stores' = stores
               /\ req'[p].result \in QuantityErrors \cup BooksCheckErrors
               /\ req'[p].result \in BooksCheckErrors =>
                    /\ req[p].pc = "ub_update"
                    /\ books[req[p].book_id] # req[p].existing]_vars

\* an updateBook has been rejected by a CHECK constraint while a loan is out
C5_Witness ==
  \E p \in Clients :
    /\ req[p].op = "updateBook" /\ req[p].pc = "done"
    /\ req[p].result \in BooksCheckErrors
    /\ \E id \in DOMAIN borrowings : IsActive(id)

\* C6: no (borrower, book) pair ever has two borrowings with return_date null.
C6_OneActiveLoanPerPair ==
  \A i, j \in DOMAIN borrowings :
    (/\ IsActive(i) /\ IsActive(j)
     /\ borrowings[i].borrower_id = borrowings[j].borrower_id
     /\ borrowings[i].book_id = borrowings[j].book_id) => i = j

\* the positions of a checkout before the COMMIT of its transaction
CheckoutPreCommit ==
  {"c_findBook", "c_findBorrower", "c_hasActive", "c_lock", "c_borrowerCheck", "c_insert"}

\* the call of p is a checkout with a due date that passes validation, by a
\* borrower who has an active loan of the book
DuplicateCheckout(p) ==
  /\ req[p].op = "checkout" /\ req[p].pc \in CheckoutPreCommit
  /\ ValidateCheckoutData(CalculatedDueDate(req[p].due_date), req[p].moment) = OK
  /\ \E id \in ActiveOfBook(req[p].book_id) : borrowings[id].borrower_id = req[p].borrower_id

\* C7 as stated: a checkout by a borrower who has an active loan of the book never
\* commits and ends with 'Borrower already has this book checked out', whatever the
\* available_quantity of the book.
C7_DuplicateGetsConflict ==
  [][\A p \in Clients :
       DuplicateCheckout(p) =>
         /\ req'[p].pc # "c_detail"
         /\ Ends(p) => req'[p].result = ErrDuplicate]_vars

\* C7, amended: such a checkout never commits and ends with 'Borrower already has
\* this book checked out' when the book has a copy available, and with 'Book is not
\* available for checkout' when it has none.
C7_DuplicateGetsConflictOrUnavailable ==
  [][\A p \in Clients :
       DuplicateCheckout(p) =>
         /\ req'[p].pc # "c_detail"
         /\ Ends(p) =>
              req'[p].result = IF books[req[p].book_id].available_quantity > 0
                               THEN ErrDuplicate ELSE ErrUnavailable]_vars

\* a checkout has ended with the Conflict error while the book has a copy available
C7_Witness ==
  /\ req[SeqClient].op = "checkout" /\ req[SeqClient].pc = "done"
  /\ req[SeqClient].result = ErrDuplicate
  /\ \E b \in DOMAIN books : books[b].available_quantity > 0 /\ ActiveOfBook(b) # {}

PreconditionErrors ==
  {ErrBookNotFound, ErrBorrowerNotFound, ErrBorrowingNotFound, ErrUnavailable, ErrDuplicate,
   ErrAlreadyReturned, ErrActiveNotFound, ErrDueDate, ErrNewDueDate, ErrDueFormat}

\* C8: a checkout, return or extension that ends with the error of a failed
\* precondition changes no store in its last step and has changed none before: a
\* call changes the stores only in the step that commits it, after which it does
\* not fail a precondition.
C8_FailedCallChangesNothing ==
  [][\A p \in Clients :
       /\ (req[p].op \in {"checkout", "return", "extend"} /\ Ends(p)
            /\ req'[p].result \in PreconditionErrors) =>
             (stores' = stores /\ req[p].pc \notin {"c_detail", "r_detail"})
       /\ (req'[p] # req[p] /\ stores' # stores) =>
             /\ req[p].pc \in {"c_insert", "r_update"}
             /\ req'[p].pc \in {"c_detail", "r_detail"}]_vars

\* a checkout has failed for want of a copy (the one copy is out) and a loan is out
C8_Witness ==
  \E p \in Clients :
    /\ req[p].op = "checkout" /\ req[p].pc = "done" /\ req[p].result = ErrUnavailable
    /\ \E id \in DOMAIN borrowings : IsActive(id)
    /\ \A b \in DOMAIN books : books[b].available_quantity = 0

\* C9: a borrowing that has a return_date keeps it for ever, and a returnBook that
\* finds it closed ends with 'Book has already been returned' and leaves the books
\* as they are.
C9_ClosedOnce ==
  [][/\ \A id \in DOMAIN borrowings :
          borrowings[id].return_date # Null =>
            /\ id \in DOMAIN borrowings'
            /\ borrowings'[id].return_date = borrowings[id].return_date
     /\ \A p \in Clients :
          (/\ req[p].op = "return" /\ req[p].pc = "r_find" /\ req'[p] # req[p]
           /\ req[p].id \in DOMAIN borrowings
           /\ borrowings[req[p].id].return_date # Null) =>
            (req'[p].pc = "done" /\ req'[p].result = ErrAlreadyReturned /\ books' = books)]_vars

\* C10: no step removes a row of borrowings.
C10_BorrowingsNeverRemoved ==
  [][DOMAIN borrowings \subseteq DOMAIN borrowings']_vars

\* the books a deletion call of p is aimed at now (none when the id or ISBN is unknown)
DeleteTarget(p) ==
  IF req[p].pc = "done" THEN {}
  ELSE IF req[p].op = "deleteBook" THEN {req[p].book_id} \cap DOMAIN books
  ELSE IF req[p].op = "deleteBookByISBN" THEN {b \in DOMAIN books : books[b].isbn = req[p].isbn}
  ELSE {}

\* C11: a deleteBook or deleteBookByISBN of a book that has a borrowing with
\* return_date null ends with 'Cannot delete book with active borrowings' and
\* changes nothing; for a book that exists and has no such borrowing it ends well
\* and the book is gone; and a lookup of a book that is not there ends with 'Book
\* not found'.
C11_DeleteBlockedByActiveLoan ==
  [][\A p \in {SeqClient} :
       /\ \A b \in DeleteTarget(p) :
            Ends(p) =>
              IF ActiveOfBook(b) # {}
              THEN req'[p].result = ErrActiveBookBorrowings /\ stores' = stores
              ELSE req'[p].result = OK /\ b \notin DOMAIN books'
       /\ (req[p].op = "getBookById" /\ Ends(p)) =>
            (req'[p].result = ErrBookNotFound <=> req[p].book_id \notin DOMAIN books)]_vars

\* a deletion by ISBN has been refused because a loan of the book is out, and the
\* book and the loan are still there
C11_Witness ==
  /\ req[SeqClient].op = "deleteBookByISBN" /\ req[SeqClient].pc = "done"
  /\ req[SeqClient].result = ErrActiveBookBorrowings
  /\ \E id \in DOMAIN borrowings : IsActive(id) /\ borrowings[id].book_id \in DOMAIN books

\* C12: when a deleteBook runs among checkouts of the book, the deletion and a
\* checkout never both succeed, and no step removes a borrowing that has
\* return_date null.
C12_NoActiveLoanLostWithBook ==
  /\ [](\A p \in Callers \ {Deleter} :
          ~(/\ req[Deleter].pc = "done" /\ req[Deleter].result = OK
            /\ req[p].pc = "done" /\ req[p].result = OK))
  /\ [][\A id \in DOMAIN borrowings : IsActive(id) => id \in DOMAIN borrowings']_vars

\* C13: a deleteBorrower that ends while the borrower has a borrowing with
\* return_date null ends with 'Cannot delete borrower with active borrowings', and
\* no step removes a borrower who has such a borrowing, whatever checkouts of the
\* borrower run at the same time.
C13_BorrowerWithLoanNotDeleted ==
  [][/\ \A w \in borrowers :
          (\E id \in DOMAIN borrowings : IsActive(id) /\ borrowings[id].borrower_id = w)
            => w \in borrowers'
     /\ (/\ req[Deleter].op = "deleteBorrower" /\ Ends(Deleter)
         /\ \E id \in DOMAIN borrowings : IsActive(id) /\ borrowings[id].borrower_id = Borrower)
          => req'[Deleter].result = ErrActiveBorrowerBorrowings]_vars

C17_CheckoutReturnRestoresCounter ==
  /\ books[1].total_quantity = books[2].total_quantity
  /\ IsActive(1) => books[1].available_quantity = books[2].available_quantity - 1
  /\ (/\ req[Lender].pc = "done" /\ req[Lender].result = OK
      /\ req[Returner].pc = "done" /\ req[Returner].result = OK)
       => books[1].available_quantity = books[2].available_quantity

\* both calls have succeeded, the return on a later day than the checkout
C17_Witness ==
  /\ req[Lender].pc = "done" /\ req[Lender].result = OK
  /\ req[Returner].pc = "done" /\ req[Returner].result = OK
  /\ 1 \in DOMAIN borrowings
  /\ borrowings[1].return_date > borrowings[1].checkout_date

\* C18: every borrowing has due_date >= checkout_date and, when it has a
\* return_date, return_date >= checkout_date.
C18_DatesInOrder ==
  \A id \in DOMAIN borrowings :
    /\ borrowings[id].due_date >= borrowings[id].checkout_date
    /\ borrowings[id].return_date = Null
         \/ borrowings[id].return_date >= borrowings[id].checkout_date

\* a borrowing that is due on the day of its checkout has been returned, and a
\* checkout has just been refused by the CHECK constraint on due_date
C18_Witness ==
  /\ \E id \in DOMAIN borrowings :
       /\ borrowings[id].due_date = borrowings[id].checkout_date
       /\ borrowings[id].return_date # Null
  /\ req[SeqClient].pc = "done" /\ req[SeqClient].result = ErrCheckDueDate

\* C19: a checkout with a due_date that is supplied and does not denote a moment
\* after now ends with 'Due date must be in the future'; a checkout that is taken
\* further has the current date as checkout_date and, when due_date was left out,
\* that date plus 14 days as due_date; and the borrowing a checkout creates has
\* that checkout_date, that due_date and return_date null.
C19_CheckoutDates ==
  [][\A p \in {SeqClient} :
       /\ (req[p].op = "checkout" /\ req[p].pc = "c_findBook" /\ req'[p] # req[p]) =>
            /\ (/\ req[p].due_date # Null
                /\ ~(\/ req[p].due_date > today
                     \/ req[p].moment = "ahead" /\ req[p].due_date >= today - 1))
                 => (req'[p].pc = "done" /\ req'[p].result = ErrDueDate)
            /\ req'[p].pc # "done" =>
                 /\ req'[p].checkout_date = today
                 /\ req'[p].due_date = IF req[p].due_date = Null THEN today + DefaultLoanDays
                                       ELSE req[p].due_date
       /\ (req[p].op = "checkout" /\ req[p].pc = "c_insert" /\ req'[p].pc = "c_detail") =>
            /\ req'[p].id \notin DOMAIN borrowings
            /\ req'[p].id \in DOMAIN borrowings'
            /\ borrowings'[req'[p].id].return_date = Null
            /\ borrowings'[req'[p].id].checkout_date = req[p].checkout_date
            /\ borrowings'[req'[p].id].due_date = req[p].due_date
       /\ (req[p].op = "checkout" /\ req'[p] # req[p] /\ req'[p].pc # "c_detail") =>
            borrowings' = borrowings]_vars

\* a loan of the default length has been made, and a checkout with a plain date
\* that is not after today has just been refused
C19_Witness ==
  /\ \E id \in DOMAIN borrowings :
       /\ borrowings[id].due_date = borrowings[id].checkout_date + DefaultLoanDays
       /\ borrowings[id].return_date = Null
  /\ req[SeqClient].op = "checkout" /\ req[SeqClient].pc = "done"
  /\ req[SeqClient].result = ErrDueDate

\* C20: the detailed response of a borrowing has is_overdue true exactly when
\* return_date is null and due_date < today, and days_overdue = today - due_date
\* when overdue and 0 otherwise, and is_overdue agrees with membership in the
\* overdue list; every entry of the overdue list carries these values too.
C20_OverdueFieldsMatchList ==
  [][\A p \in {SeqClient} :
       /\ (/\ req[p].op = "getBorrowingById" /\ req[p].pc = "gl_find"
           /\ req'[p].pc = "done" /\ req[p].id \in DOMAIN borrowings) =>
            LET b == borrowings[req[p].id]
                overdue == b.return_date = Null /\ b.due_date < today
            IN /\ req'[p].result.is_overdue = overdue
               /\ req'[p].result.days_overdue = (IF overdue THEN today - b.due_date ELSE 0)
               /\ req'[p].result.is_overdue = (req[p].id \in FindOverdue)
       /\ (/\ req[p].op = "getOverdueBorrowings" /\ req[p].pc = "go_find"
           /\ req'[p].pc = "done") =>
            \A r \in req'[p].result.overdue_borrowings :
              r.is_overdue /\ r.days_overdue = today - r.due_date]_vars

\* the failures of a precondition of checkout, return and extend
PreconditionFailures ==
  { ErrBookNotFound, ErrBorrowerNotFound, ErrBorrowingNotFound, ErrActiveNotFound,
    ErrUnavailable, ErrDuplicate, ErrAlreadyReturned,
    ErrDueDate, ErrNewDueDate, ErrDueFormat }

\* C21: a checkout, return or extend that ends with the failure of a
\* precondition is never answered with the generic internal failure (status 500).
C21_PreconditionFailureIsNotGeneric ==
  \A p \in DOMAIN req :
    (/\ req[p].pc = "done" /\ req[p].op \in {"checkout", "return", "extend"}
     /\ req[p].result \in PreconditionFailures)
      => ResponseStatus(req[p]) # 500

\* C22: a return that succeeds stores as return_date the return_date of the
\* request when there is one, and the current date when there is none.
C22_ReturnDateStored ==
  [][\A p \in {SeqClient} :
       (req[p].op = "return" /\ req[p].pc = "r_update" /\ req'[p].pc = "r_detail") =>
         borrowings'[req[p].id].return_date =
           (IF req[p].body_return_date = Null THEN today ELSE req[p].body_return_date)]_vars

\* C23: updateBookAvailability of an existing book with a change that would take
\* available_quantity below 0 or above total_quantity ends with a failure and
\* changes no book; any other change is added to the available_quantity of that
\* book, and nothing else of any book changes.
C23_UpdateAvailabilityRefusesOutOfRange ==
  [][\A p \in Clients :
       (/\ req[p].op = "updateBookAvailability" /\ req[p].pc = "ua_update"
        /\ req'[p].pc = "done" /\ req[p].book_id \in DOMAIN books) =>
         LET b == req[p].book_id
             sum == books[b].available_quantity + req[p].quantityChange
         IN IF sum < 0 \/ sum > books[b].total_quantity
            THEN req'[p].result # OK /\ books' = books
            ELSE /\ req'[p].result = OK
                 /\ DOMAIN books' = DOMAIN books
                 /\ books'[b].available_quantity = sum
                 /\ books'[b].total_quantity = books[b].total_quantity
                 /\ books'[b].isbn = books[b].isbn
                 /\ \A o \in DOMAIN books \ {b} : books'[o] = books[o]]_vars

\* a change that would take the counter above total_quantity has been refused
C23_Witness ==
  \E p \in Clients :
    /\ req[p].op = "updateBookAvailability" /\ req[p].pc = "done"
    /\ req[p].result = ErrCheckAvailLteTotal

\* C24: the list of low-availability books for a threshold holds, once each,
\* exactly the books with 0 < available_quantity <= threshold, in ascending order
\* of available_quantity, books with the same available_quantity in ascending
\* order of title.
C24_LowAvailabilityExactAndOrdered ==
  [][\A p \in {SeqClient} :
       (/\ req[p].op = "getLowAvailabilityBooks" /\ req[p].pc = "la_find"
        /\ req'[p].pc = "done") =>
         LET s == req'[p].result
             n == Len(s)
         IN /\ {s[i] : i \in 1..n} =
                 {b \in DOMAIN books : /\ 0 < books[b].available_quantity
                                        /\ books[b].available_quantity <= req[p].threshold}
            /\ \A i, j \in 1..n : i # j => s[i] # s[j]
            /\ \A i \in 1..(n - 1) :
                 \/ books[s[i]].available_quantity < books[s[i + 1]].available_quantity
                 \/ /\ books[s[i]].available_quantity = books[s[i + 1]].available_quantity
                    /\ books[s[i]].title <= books[s[i + 1]].title]_vars

\* a list of two books has been returned in which the scarcer book comes first
\* although its title comes later
C24_Witness ==
  /\ req[SeqClient].op = "getLowAvailabilityBooks" /\ req[SeqClient].pc = "done"
  /\ Len(req[SeqClient].result) = 2
  /\ LET s == req[SeqClient].result
     IN /\ books[s[1]].available_quantity < books[s[2]].available_quantity
        /\ books[s[1]].title > books[s[2]].title

\* C25: the answer of getAllBorrowings to a query has page >= 1 (the page asked
\* for when that is >= 1) and limit in 1..100 (the limit asked for when that is in
\* 1..100); its total is the number of borrowings that match every filter given
\* (borrower, book, and the status active / returned / overdue, any other status
\* counting as all), totalPages is ceil(total / limit), and its rows are the rows
\* at positions (page - 1) * limit + 1 .. page * limit of the matching borrowings
\* in the order asked for (checkout_date when the sort field is unknown).
C25_ListingIsTheRequestedPage ==
  [][\A p \in {SeqClient} :
       (/\ req[p].op = "getAllBorrowings" /\ req[p].pc = "ga_find"
        /\ req'[p].pc = "done") =>
         LET q == req[p].query
             rows == req'[p].result.borrowings
             pg == req'[p].result.pagination
             matching ==
               {id \in DOMAIN borrowings :
                  /\ q.borrower_id # Null => borrowings[id].borrower_id = q.borrower_id
                  /\ q.book_id # Null => borrowings[id].book_id = q.book_id
                  /\ q.status = "active" => borrowings[id].return_date = Null
                  /\ q.status = "returned" => borrowings[id].return_date # Null
                  /\ q.status = "overdue" => /\ borrowings[id].return_date = Null
                                              /\ borrowings[id].due_date < today}
             key(id) == IF q.sortBy = "due_date" THEN borrowings[id].due_date
                        ELSE borrowings[id].checkout_date
             ahead(m, x) == IF q.sortOrder = "ASC" THEN key(m) < key(x) ELSE key(m) > key(x)
             level(m, x) == key(m) = key(x)
             first == (pg.page - 1) * pg.limit
         IN /\ pg.page >= 1 /\ (q.page # Null /\ q.page >= 1 => pg.page = q.page)
            /\ pg.limit \in 1..100 /\ (q.limit \in 1..100 => pg.limit = q.limit)
            /\ pg.total = Cardinality(matching)
            /\ pg.totalPages * pg.limit >= pg.total
            /\ (pg.totalPages - 1) * pg.limit < pg.total
            /\ Len(rows) = (IF pg.total - first <= 0 THEN 0
                            ELSE IF pg.total - first <= pg.limit THEN pg.total - first
                            ELSE pg.limit)
            /\ \A i \in 1..Len(rows) :
                 /\ rows[i] \in matching
                 /\ \A j \in 1..Len(rows) : i # j => rows[i] # rows[j]
                 /\ Cardinality({m \in matching : ahead(m, rows[i])}) < first + i
                 /\ first + i <=
                      Cardinality({m \in matching : ahead(m, rows[i]) \/ level(m, rows[i])})]_vars

\* the second page, of one row, of the two active loans of borrower 1 has been
\* returned
C25_Witness ==
  /\ req[SeqClient].op = "getAllBorrowings" /\ req[SeqClient].pc = "done"
  /\ req[SeqClient].query.borrower_id = 1 /\ req[SeqClient].query.book_id = Null
  /\ req[SeqClient].query.status = "active"
  /\ req[SeqClient].result.pagination.page = 2
  /\ Len(req[SeqClient].result.borrowings) = 1

IsbnUnique ==
  \A a, b \in DOMAIN books : a # b => books[a].isbn # books[b].isbn

\* the call of p is a createBook with an ISBN that a book holds now, or an
\* updateBook that names, for a book that exists, another ISBN than that book's,
\* which a different book holds now
Colliding(p) ==
  LET r == req[p]
  IN \/ /\ r.op = "createBook" /\ r.pc \in {"cb_find", "cb_insert"}
        /\ \E b \in DOMAIN books : books[b].isbn = r.isbn
     \/ /\ r.op = "updateBook" /\ r.pc \in {"ub_find", "ub_isbn", "ub_update"}
        /\ r.book_id \in DOMAIN books
        /\ "isbn" \in DOMAIN r.updateData
        /\ r.updateData.isbn # books[r.book_id].isbn
        /\ \E b \in DOMAIN books \ {r.book_id} : books[b].isbn = r.updateData.isbn

\* the call of p is an updateBook that names the ISBN the book has now
KeepsOwnIsbn(p) ==
  LET r == req[p]
  IN /\ r.op = "updateBook" /\ r.pc \in {"ub_find", "ub_isbn", "ub_update"}
     /\ r.book_id \in DOMAIN books
     /\ "isbn" \in DOMAIN r.updateData
     /\ r.updateData.isbn = books[r.book_id].isbn

PcOrder ==
  << "c_findBook", "c_findBorrower", "c_hasActive", "c_lock", "c_borrowerCheck",
     "c_insert", "c_detail", "r_find", "r_lock", "r_update", "r_detail",
     "e_lock", "e_update", "done" >>
PcRank(pc) == CHOOSE i \in 1..Len(PcOrder) : PcOrder[i] = pc
Started(p) == req[p].pc \notin {"idle", "done"}

\* C27: under fair scheduling every checkout, return and extension that has
\* started ends (with success or an error), whatever the other client does on the
\* same book and borrowings; and no step of a call takes it back to an earlier
\* position (nothing is tried again).
C27_EveryCallCompletes ==
  /\ \A p \in Clients : Started(p) ~> (req[p].pc = "done")
  /\ [][\A p \in Clients :
          (Started(p) /\ req'[p] # req[p]) => PcRank(req'[p].pc) > PcRank(req[p].pc)]_vars

\* a return holds the row lock of a borrowing for which an extension of the other
\* client waits
C27_Witness ==
  \E p, q \in Clients :
    /\ p # q
    /\ req[p].op = "return" /\ req[p].pc = "r_update"
    /\ req[q].op = "extend" /\ req[q].pc = "e_lock" /\ req[q].id = req[p].id
    /\ req[q].valid /\ req[q].due_date > today

StrictlyAscending(s) == \A i, j \in 1..Len(s) : i < j => s[i] < s[j]
StrictlyDescending(s) == \A i, j \in 1..Len(s) : i < j => s[i] > s[j]
MigrateCompleted == manager.pc = "done" /\ manager.op = "migrate"
RollbackCompleted == manager.pc = "done" /\ manager.op = "rollback"
\* the function of a migration is called in this step
RunsVersion(version) ==
  /\ manager.pc \in {"up", "down"}
  /\ manager'.ran = Append(manager.ran, version)

Committed(p) == req[p].pc \in {"c_detail", "r_detail"}

\* C29: a checkout, return or extension that ends with an error had not
\* committed its transaction: no call reports a failure after its COMMIT
C29_ErrorMeansNotCommitted ==
  [][\A p \in Clients :
       (req[p].op \in {"checkout", "return", "extend"} /\ Ends(p) /\ req'[p].result # OK) =>
         ~Committed(p)]_vars

\* the fields of a borrowing that an extension must leave alone
ExtensionFrame(row) ==
  <<row.book_id, row.borrower_id, row.checkout_date, row.return_date>>

====
